---- MODULE Spec2Model ----
(***************************************************************************)
(* Vector index lifecycle (utils/vector_store.py) and retrieval engine     *)
(* (utils/vector_search.py) of the RAG toolkit, as a state machine over    *)
(* the index directory and one VectorStore and one VectorSearch instance.  *)
(*                                                                         *)
(* Texts are sequences of one-character strings, so that str.strip() and   *)
(* the blank test are computed and not assumed.  A metadata mapping is a   *)
(* set of <<key, value>> pairs.  Vectors are integer pairs; a unit vector  *)
(* has length UnitLen, so an inner product of two unit vectors is the      *)
(* cosine scaled by UnitLen * UnitLen.                                     *)
(*                                                                         *)
(* The agent side: the tool registry (tools/__init__.py), the tools        *)
(* (tools/retrieval.py, tools/match.py), the dispatcher                    *)
(* (utils/toolscalls_process.py) and the conversation driver (main.py).    *)
(***************************************************************************)
EXTENDS Integers, Sequences, FiniteSets, TLC

VARIABLES disk, st, vs, wr, last, log, nups, ncor, okload, qa,
          defaults, conversations, drv, out

\* the agent side: the default parameter declarations the tool classes
\* share, the transcript, the driver and the record of the last agent call
agentVars == <<defaults, conversations, drv, out>>

vars == <<disk, st, vs, wr, last, log, nups, ncor, okload, qa, agentVars>>

-----------------------------------------------------------------------------
(* Bounds of the model.                                                    *)

\* rows of one CSV file
MaxRows == 2
\* calls of upsert_csv_to_vector_store in one behaviour
MaxUpserts == 2
\* files the environment damages in one behaviour
MaxCorrupt == 1
\* largest top_k a search is called with
MaxK == 2
\* upserts that build the index a search runs on
MaxBuilds == 1
\* queries of one batch_search
MaxBatch == 2
\* tool calls of one model reply
MaxCalls == 2
\* calls of process_tool_calls in one behaviour
MaxDispatches == 1
\* calls of init_tools in one behaviour
MaxInits == 2
\* models of models_list
MaxModels == 2
\* entries of the knowledge base of the Retrieval tool
MaxKb == 5

-----------------------------------------------------------------------------
(* Inputs.                                                                 *)

\* index names used by callers
Names == {"kb"}

\* the header of every CSV file: a text column and one more column
Columns == {"text", "tag"}

\* the str() of an empty CSV cell: pandas reads it as NaN and astype(str)
\* makes it the text 'nan'
NaNStr == <<"n", "a", "n">>

\* the rows a CSV file is made of: a plain text, a padded text, a
\* whitespace-only text and an empty cell
RowValues ==
    { [text |-> <<"c">>, tag |-> "x"],
      [text |-> <<" ", "d">>, tag |-> "y"],
      [text |-> <<" ">>, tag |-> "x"],
      [text |-> <<>>, tag |-> "y"] }

CsvFiles == UNION { [1..n -> RowValues] : n \in 0..MaxRows }

\* text_column arguments: a column of the file and one that is not
TextColumns == {"text", "body"}

\* additional_columns arguments: None, and a column of the file together
\* with one that is not
AdditionalColumns == { <<>>, <<"tag", "owner">> }

-----------------------------------------------------------------------------
(* Python helpers.                                                         *)

RECURSIVE LStrip(_)
LStrip(s) ==
    IF s # <<>> /\ Head(s) = " " THEN LStrip(Tail(s)) ELSE s

RECURSIVE RStrip(_)
RStrip(s) ==
    IF s # <<>> /\ s[Len(s)] = " " THEN RStrip(SubSeq(s, 1, Len(s) - 1)) ELSE s

\* str.strip()
Strip(s) == RStrip(LStrip(s))

\* the truth value of `text and text.strip()`
IsValidText(s) == s # <<>> /\ Strip(s) # <<>>

\* [x] * n
Repeat(x, n) == [i \in 1..n |-> x]

\* seq[i] for a Python index i of a non-empty list: negative i counts from
\* the end
PyItem(seq, i) == IF i >= 0 THEN seq[i + 1] ELSE seq[Len(seq) + i + 1]

\* whether seq[i] raises IndexError
PyIndexError(seq, i) == ~(-Len(seq) <= i /\ i < Len(seq))

-----------------------------------------------------------------------------
(* The embedding model and FAISS.                                          *)

UnitLen == 5

\* SentenceTransformer.encode of one text: a deterministic vector per text,
\* of varying length
Encode(s) ==
    CASE s # <<>> /\ Head(s) = "c" -> <<10, 0>>
      [] s # <<>> /\ Head(s) = "d" -> <<0, 5>>
      [] s # <<>> /\ Head(s) = "n" -> <<-15, 0>>
      [] s # <<>> /\ Head(s) = "k" -> <<8, 6>>
      [] OTHER -> <<0, 10>>

Norm(v) == CHOOSE n \in 0..(UnitLen * 4) : n * n = v[1] * v[1] + v[2] * v[2]

\* faiss.normalize_L2 of one row
NormalizeL2(v) == [i \in 1..Len(v) |-> (v[i] * UnitLen) \div Norm(v)]

InnerProduct(u, v) == u[1] * v[1] + u[2] * v[2]

\* the default model_name of VectorStore and VectorSearch
PrimaryModel == "m3e-small"

\* fallback_models, in the listed order
FallbackModels ==
    <<"all-MiniLM-L6-v2", "paraphrase-MiniLM-L3-v2",
      "distiluse-base-multilingual-cased-v2">>

ModelNames == {PrimaryModel} \cup { FallbackModels[i] : i \in 1..Len(FallbackModels) }

\* get_sentence_embedding_dimension of a model: the two MiniLM models are
\* of one width, m3e-small and distiluse of another
Dimension(model) ==
    IF model \in {"all-MiniLM-L6-v2", "paraphrase-MiniLM-L3-v2"} THEN 3 ELSE 2

\* variant: every model encodes to the width of the primary model
EncodeBy_PrimaryWidth(model, s) == Encode(s)

\* self.model.encode of one text: a vector of the width of the model
EncodeBy(model, s) == Encode(s) \o [i \in 1..(Dimension(model) - Len(Encode(s))) |-> 0]

\* one call of SentenceTransformer(...): the model asked for, and whether
\* with device='cpu', trust_remote_code=True
LoadOf(model, degraded) == [model |-> model, degraded |-> degraded]

\* variant: the load with custom settings is tried before the fallbacks
LoadOrder_CustomSettingsFirst(model_name) ==
    <<LoadOf(model_name, FALSE), LoadOf(model_name, TRUE)>> \o
    [i \in 1..Len(FallbackModels) |-> LoadOf(FallbackModels[i], FALSE)]

\* the loads _load_model_safely makes while each one raises
LoadOrder(model_name) ==
    <<LoadOf(model_name, FALSE)>> \o
    [i \in 1..Len(FallbackModels) |-> LoadOf(FallbackModels[i], FALSE)] \o
    <<LoadOf(model_name, TRUE)>>

\* the nested try blocks from the i-th load on: the first load that does
\* not raise is returned, RuntimeError after the last
RECURSIVE LoadFrom(_, _, _)
LoadFrom(order, i, avail) ==
    IF i > Len(order)
    THEN [ret |-> "RuntimeError", model |-> "", attempts |-> order]
    ELSE IF order[i] \in avail
         THEN [ret |-> "ok", model |-> order[i].model, attempts |-> SubSeq(order, 1, i)]
         ELSE LoadFrom(order, i + 1, avail)

\* _load_model_safely(model_name), avail: the loads that do not raise
LoadModelSafely(model_name, avail) == LoadFrom(LoadOrder(model_name), 1, avail)

\* self.index is None / the attribute is not set yet
NoIndex == [loaded |-> FALSE, metric |-> "", vecs |-> <<>>]

-----------------------------------------------------------------------------
(* Files of the index directory.                                           *)

Parts == {"idx", "txt", "meta"}

AbsentIndexFile == [state |-> "absent", data |-> NoIndex]
AbsentListFile == [state |-> "absent", data |-> <<>>]

NoArtifact == [idx |-> AbsentIndexFile, txt |-> AbsentListFile, meta |-> AbsentListFile]

\* os.path.exists
Exists(file) == file.state # "absent"

\* the file opens and parses
Readable(file) == file.state = "ok"

-----------------------------------------------------------------------------
(* VectorStore: extraction, filtering, writing, loading, deleting.         *)

\* df[text_column].astype(str) of one row: an empty cell is NaN, whose str
\* is 'nan'; any other cell is read as it is written
\* df[col].astype(str) of one row: the text of the cell, nan for an empty
\* cell
Cell(row, col) == IF row[col] = <<>> THEN NaNStr ELSE row[col]

\* the text of a row of a file whose text column is `text`
TextOf(row) == Cell(row, "text")

\* df.columns: the columns of the rows (of a file without rows: text, tag)
ColumnsOf(csv) == IF csv = <<>> THEN Columns ELSE DOMAIN csv[1]

\* str(row[col]) of a metadata column (a tag cell is never empty)
MetaCell(row, col) == IF col = "tag" THEN row[col] ELSE Cell(row, col)

\* {col: str(row[col]) for col in additional_columns if col in df.columns}
MetaOf(row, additional_columns) ==
    { <<additional_columns[j], MetaCell(row, additional_columns[j])>> :
        j \in { k \in 1..Len(additional_columns) : additional_columns[k] \in DOMAIN row } }

\* _extract_texts_and_metadata_from_csv: err is the ValueError of an unknown
\* text column
ExtractTextsAndMetadataFromCsv(csv, text_column, additional_columns) ==
    IF text_column \notin ColumnsOf(csv)
    THEN [err |-> TRUE, texts |-> <<>>, metadata |-> <<>>]
    ELSE [err |-> FALSE,
          texts |-> [i \in 1..Len(csv) |-> Cell(csv[i], text_column)],
          metadata |->
              IF additional_columns # <<>>
              THEN [i \in 1..Len(csv) |-> MetaOf(csv[i], additional_columns)]
              ELSE <<>>]

\* CombineTexts with the new texts put first
CombineTexts_NewFirst(existing_texts, new_texts) == new_texts \o existing_texts

\* combined_texts = existing_texts + new_texts
CombineTexts(existing_texts, new_texts) == existing_texts \o new_texts

\* combined_metadata = existing_metadata + (new_metadata or [{}] * len(new_texts))
CombineMetadata(existing_metadata, new_metadata, n_new) ==
    existing_metadata \o (IF new_metadata # <<>> THEN new_metadata ELSE Repeat({}, n_new))

\* the metadata appended for the text at (1-based) position i: metadata[i]
\* when `metadata and i < len(metadata)`, else {}
MetaAt(metadata, i) ==
    IF metadata # <<>> /\ i <= Len(metadata) THEN metadata[i] ELSE {}

\* FilterValid with the metadata kept for blank texts too
RECURSIVE FilterValid_MetadataOfBlank(_, _, _)
FilterValid_MetadataOfBlank(texts, metadata, i) ==
    IF i > Len(texts)
    THEN [texts |-> <<>>, metadata |-> <<>>]
    ELSE LET rest == FilterValid_MetadataOfBlank(texts, metadata, i + 1)
         IN  IF IsValidText(texts[i])
             THEN [texts |-> <<Strip(texts[i])>> \o rest.texts,
                   metadata |-> <<MetaAt(metadata, i)>> \o rest.metadata]
             ELSE [texts |-> rest.texts,
                   metadata |-> <<MetaAt(metadata, i)>> \o rest.metadata]

\* the filtering loop of _create_vector_index from position i on:
\* valid_texts and valid_metadata
RECURSIVE FilterValid(_, _, _)
FilterValid(texts, metadata, i) ==
    IF i > Len(texts)
    THEN [texts |-> <<>>, metadata |-> <<>>]
    ELSE LET rest == FilterValid(texts, metadata, i + 1)
         IN  IF IsValidText(texts[i])
             THEN [texts |-> <<Strip(texts[i])>> \o rest.texts,
                   metadata |-> <<MetaAt(metadata, i)>> \o rest.metadata]
             ELSE rest

\* model.encode(valid_texts) followed by faiss.normalize_L2
Embeddings(model, valid_texts) ==
    [i \in 1..Len(valid_texts) |-> NormalizeL2(EncodeBy(model, valid_texts[i]))]

\* faiss.IndexFlatIP(dimension); index.add(embeddings); faiss.write_index
WriteIndexFile(files, embeddings) ==
    [files EXCEPT !.idx =
        [state |-> "ok",
         data |-> [loaded |-> TRUE, metric |-> "IP", vecs |-> embeddings]]]

\* if valid_metadata: json.dump(valid_metadata, <name>_metadata.json)
WriteMetadataFile(files, valid_metadata) ==
    IF valid_metadata # <<>>
    THEN [files EXCEPT !.meta = [state |-> "ok", data |-> valid_metadata]]
    ELSE files

\* json.dump(valid_texts, <name>_texts.json)
WriteTextsFile(files, valid_texts) ==
    [files EXCEPT !.txt = [state |-> "ok", data |-> valid_texts]]

\* _create_vector_index on the three files of one name: err is the
\* ValueError "No valid texts found for embedding", raised before any write
CreateVectorIndex(model, files, texts, metadata) ==
    LET valid == FilterValid(texts, metadata, 1)
    IN  IF valid.texts = <<>>
        THEN [err |-> TRUE, files |-> files]
        ELSE [err |-> FALSE,
              files |->
                  WriteTextsFile(
                      WriteMetadataFile(
                          WriteIndexFile(files, Embeddings(model, valid.texts)),
                          valid.metadata),
                      valid.texts)]

\* VectorStore.load_index on the three files of index_name.  An exception
\* inside the try block leaves the assignments made before it and returns
\* False.
St_load_index(s, files, index_name) ==
    IF ~Exists(files.idx) THEN [inst |-> s, ret |-> FALSE]
    ELSE IF ~Readable(files.idx) THEN [inst |-> s, ret |-> FALSE]
    ELSE
      LET s1 == [s EXCEPT !.index = files.idx.data, !.index_path = index_name]
      IN  IF Exists(files.txt) /\ ~Readable(files.txt)
          THEN [inst |-> s1, ret |-> FALSE]
          ELSE
            LET s2 == [s1 EXCEPT
                         !.kb_data = IF Exists(files.txt) THEN files.txt.data ELSE <<>>,
                         !.metadata = <<>>]
            IN  IF Exists(files.meta) /\ ~Readable(files.meta)
                THEN [inst |-> s2, ret |-> FALSE]
                ELSE [inst |-> [s2 EXCEPT
                                  !.metadata = IF Exists(files.meta)
                                               THEN files.meta.data ELSE <<>>],
                      ret |-> TRUE]

\* variant: when the load returns False the upsert goes on from what the
\* instance holds in memory
PrepareUpsert_FromMemory(s, files, index_name, csv, text_column, additional_columns) ==
    LET l == St_load_index(s, files, index_name)
        x == ExtractTextsAndMetadataFromCsv(csv, text_column, additional_columns)
    IN  [st |-> l.inst,
         err |-> x.err,
         texts |-> CombineTexts(l.inst.kb_data, x.texts),
         metadata |-> CombineMetadata(l.inst.metadata, x.metadata, Len(x.texts))]

\* upsert_csv_to_vector_store up to the writes: the first load_index, the
\* extraction, the combination and the filtering
PrepareUpsert(s, files, index_name, csv, text_column, additional_columns) ==
    LET l == St_load_index(s, files, index_name)
        existing_texts == IF l.ret THEN l.inst.kb_data ELSE <<>>
        existing_metadata == IF l.ret THEN l.inst.metadata ELSE <<>>
        x == ExtractTextsAndMetadataFromCsv(csv, text_column, additional_columns)
    IN  [st |-> l.inst,
         err |-> x.err,
         texts |-> CombineTexts(existing_texts, x.texts),
         metadata |-> CombineMetadata(existing_metadata, x.metadata, Len(x.texts))]

\* variant: the files of the name are removed before the rows are read,
\* so an upsert that raises leaves none of them
UpsertCsvToVectorStore_ClearsFirst(s, d, index_name, csv, text_column, additional_columns) ==
    LET p == PrepareUpsert(s, d[index_name], index_name, csv, text_column,
                           additional_columns)
        cleared == [d EXCEPT ![index_name] = NoArtifact]
    IN  IF p.err
        THEN [st |-> p.st, disk |-> cleared, ret |-> "ValueError"]
        ELSE
          LET c == CreateVectorIndex(p.st.model, NoArtifact, p.texts, p.metadata)
          IN  IF c.err
              THEN [st |-> p.st, disk |-> cleared, ret |-> "ValueError"]
              ELSE [st |-> St_load_index(p.st, c.files, index_name).inst,
                    disk |-> [d EXCEPT ![index_name] = c.files],
                    ret |-> "ok"]

\* upsert_csv_to_vector_store, the whole call
UpsertCsvToVectorStore(s, d, index_name, csv, text_column, additional_columns) ==
    LET p == PrepareUpsert(s, d[index_name], index_name, csv, text_column,
                           additional_columns)
    IN  IF p.err
        THEN [st |-> p.st, disk |-> d, ret |-> "ValueError"]
        ELSE
          LET c == CreateVectorIndex(p.st.model, d[index_name], p.texts, p.metadata)
          IN  IF c.err
              THEN [st |-> p.st, disk |-> d, ret |-> "ValueError"]
              ELSE [st |-> St_load_index(p.st, c.files, index_name).inst,
                    disk |-> [d EXCEPT ![index_name] = c.files],
                    ret |-> "ok"]

RemovalOrder == <<"idx", "txt", "meta">>

Absent(part) == IF part = "idx" THEN AbsentIndexFile ELSE AbsentListFile

\* RemoveFrom without the os.path.exists test: removing a missing file
\* raises
RECURSIVE RemoveFrom_NoExistsTest(_, _, _)
RemoveFrom_NoExistsTest(files, i, fail) ==
    IF i > Len(RemovalOrder) THEN [files |-> files, ret |-> TRUE]
    ELSE LET part == RemovalOrder[i]
         IN  IF Exists(files[part]) /\ part # fail
             THEN RemoveFrom_NoExistsTest([files EXCEPT ![part] = Absent(part)], i + 1, fail)
             ELSE [files |-> files, ret |-> FALSE]

\* the loop of delete_index from the i-th file on; fail names the file whose
\* os.remove raises ("none": no removal fails)
RECURSIVE RemoveFrom(_, _, _)
RemoveFrom(files, i, fail) ==
    IF i > Len(RemovalOrder) THEN [files |-> files, ret |-> TRUE]
    ELSE LET part == RemovalOrder[i]
         IN  IF Exists(files[part])
             THEN IF part = fail
                  THEN [files |-> files, ret |-> FALSE]
                  ELSE RemoveFrom([files EXCEPT ![part] = Absent(part)], i + 1, fail)
             ELSE RemoveFrom(files, i + 1, fail)

\* VectorStore.delete_index
DeleteIndex(files, fail) == RemoveFrom(files, 1, fail)

-----------------------------------------------------------------------------
(* VectorSearch: loading.                                                  *)

\* Vs_load_index with the working state reset before the existence test
Vs_load_index_ResetFirst(v, files, index_name) ==
    IF ~Exists(files.idx)
    THEN [inst |-> [v EXCEPT !.index = NoIndex, !.kb_data = <<>>, !.metadata = <<>>],
          ret |-> FALSE]
    ELSE [inst |-> [v EXCEPT !.index = files.idx.data, !.index_path = index_name,
                             !.current_index_name = index_name,
                             !.kb_data = files.txt.data, !.metadata = files.meta.data],
          ret |-> Readable(files.idx) /\ Readable(files.txt) /\ Readable(files.meta)]

\* VectorSearch.load_index
Vs_load_index(v, files, index_name) ==
    IF ~Exists(files.idx) THEN [inst |-> v, ret |-> FALSE]
    ELSE IF ~Readable(files.idx) THEN [inst |-> v, ret |-> FALSE]
    ELSE
      LET v1 == [v EXCEPT !.index = files.idx.data, !.index_path = index_name,
                          !.current_index_name = index_name]
      IN  IF Exists(files.txt) /\ ~Readable(files.txt)
          THEN [inst |-> v1, ret |-> FALSE]
          ELSE
            LET v2 == [v1 EXCEPT
                         !.kb_data = IF Exists(files.txt) THEN files.txt.data ELSE <<>>,
                         !.metadata = <<>>]
            IN  IF Exists(files.meta) /\ ~Readable(files.meta)
                THEN [inst |-> v2, ret |-> FALSE]
                ELSE [inst |-> [v2 EXCEPT
                                  !.metadata = IF Exists(files.meta)
                                               THEN files.meta.data ELSE <<>>],
                      ret |-> TRUE]

-----------------------------------------------------------------------------
(* VectorSearch: searching.                                                *)

\* the score FAISS gives a missing hit of an inner-product search (the
\* lowest float); its label is -1
FltLowest == -1000

\* float('-inf') as a threshold
NegInf == -2000

\* queries, thresholds (cosine scaled by UnitLen * UnitLen), top_k values and
\* metadata filters that callers pass
Queries == { <<"k">> }
Thresholds == { NegInf, 0, 20 }
TopKs == 0..MaxK
Filters == { {}, { <<"tag", "x">> } }

\* the orders in which an inner-product search may rank the stored vectors:
\* by descending score, equal scores in any order
HitOrders(index, qv) ==
    { p \in Permutations(1..Len(index.vecs)) :
        \A i, j \in 1..Len(index.vecs) :
            i < j => InnerProduct(index.vecs[p[i]], qv) >= InnerProduct(index.vecs[p[j]], qv) }

\* index.search(query_embedding, k) under ranking p: k hits, the missing
\* ones padded with label -1
FaissSearch(index, qv, k, p) ==
    [j \in 1..k |->
        IF j <= Len(index.vecs)
        THEN [similarity |-> InnerProduct(index.vecs[p[j]], qv), idx |-> p[j] - 1]
        ELSE [similarity |-> FltLowest, idx |-> -1]]

\* the result dictionary of one hit
ResultOf(v, hit) ==
    [content |-> PyItem(v.kb_data, hit.idx),
     similarity |-> hit.similarity,
     index |-> hit.idx,
     has_metadata |-> hit.idx < Len(v.metadata),
     metadata |-> IF hit.idx < Len(v.metadata) THEN PyItem(v.metadata, hit.idx) ELSE {}]

\* the formatting loop of search from hit j on; err is an IndexError raised
\* by self.kb_data[idx] or self.metadata[idx]
RECURSIVE FormatResults(_, _, _, _)
FormatResults(v, hits, j, threshold) ==
    IF j > Len(hits) THEN [err |-> FALSE, res |-> <<>>]
    ELSE
      LET hit == hits[j]
          rest == FormatResults(v, hits, j + 1, threshold)
      IN  IF hit.similarity >= threshold /\ hit.idx < Len(v.kb_data)
          THEN IF \/ PyIndexError(v.kb_data, hit.idx)
                  \/ (hit.idx < Len(v.metadata) /\ PyIndexError(v.metadata, hit.idx))
               THEN [err |-> TRUE, res |-> <<>>]
               ELSE IF rest.err THEN rest
                    ELSE [err |-> FALSE, res |-> <<ResultOf(v, hit)>> \o rest.res]
          ELSE rest

\* VectorSearch.search under ranking p
Search(v, query, top_k, threshold, p) ==
    IF ~v.index.loaded THEN [ret |-> "ValueError", res |-> <<>>]
    ELSE IF top_k <= 0 THEN [ret |-> "AssertionError", res |-> <<>>]
    ELSE
      LET f == FormatResults(v, FaissSearch(v.index, NormalizeL2(Encode(query)), top_k, p),
                             1, threshold)
      IN  IF f.err THEN [ret |-> "IndexError", res |-> <<>>]
          ELSE [ret |-> "ok", res |-> f.res]

\* whether a result's metadata has every key of the filter with that value
MatchesFilter(metadata, metadata_filter) ==
    \A kv \in metadata_filter :
        /\ \E m \in metadata : m[1] = kv[1]
        /\ \A m \in metadata : m[1] = kv[1] => m[2] = kv[2]

\* the filtering loop of search_with_metadata_filter from result j on
RECURSIVE FilterResults(_, _, _, _, _)
FilterResults(all_results, j, metadata_filter, top_k, filtered_results) ==
    IF j > Len(all_results) THEN filtered_results
    ELSE IF /\ all_results[j].has_metadata
            /\ MatchesFilter(all_results[j].metadata, metadata_filter)
         THEN IF Len(filtered_results) + 1 >= top_k
              THEN Append(filtered_results, all_results[j])
              ELSE FilterResults(all_results, j + 1, metadata_filter, top_k,
                                 Append(filtered_results, all_results[j]))
         ELSE FilterResults(all_results, j + 1, metadata_filter, top_k, filtered_results)

\* VectorSearch.search_with_metadata_filter under ranking p; all is what the
\* inner search returned
SearchWithMetadataFilter(v, query, metadata_filter, top_k, threshold, p) ==
    LET a == Search(v, query, Len(v.kb_data), threshold, p)
    IN  IF a.ret # "ok" THEN [ret |-> a.ret, res |-> <<>>, all |-> <<>>]
        ELSE [ret |-> "ok",
              res |-> FilterResults(a.res, 1, metadata_filter, top_k, <<>>),
              all |-> a.res]

\* the queries of a batch
BatchQueries == { <<"k">>, <<"d">> }
BatchLists == UNION { [1..n -> BatchQueries] : n \in 0..MaxBatch }
BatchThresholds == { NegInf, 0 }

\* the sets of queries the embedding provider raises on
BatchRaising == { {}, { <<"d">> } }

\* one ranking per query of the batch
Rankings(index, queries) ==
    { ps \in [{ queries[i] : i \in 1..Len(queries) } -> Permutations(1..Len(index.vecs))] :
        \A q \in DOMAIN ps : ps[q] \in HitOrders(index, NormalizeL2(Encode(q))) }

\* self.search(query, ...) inside batch_search: self.model.encode raises on
\* the queries in raising
SearchOne(v, query, top_k, threshold, p, raising) ==
    IF ~v.index.loaded THEN Search(v, query, top_k, threshold, p)
    ELSE IF query \in raising THEN [ret |-> "RuntimeError", res |-> <<>>]
    ELSE Search(v, query, top_k, threshold, p)

\* results[key] = value on a dictionary kept as a sequence of entries in
\* insertion order
DictSet(results, key, value) ==
    IF \E i \in 1..Len(results) : results[i].query = key
    THEN [i \in 1..Len(results) |->
             IF results[i].query = key THEN [query |-> key, results |-> value]
             ELSE results[i]]
    ELSE Append(results, [query |-> key, results |-> value])

\* BatchFrom without the except branch filling in []: a query whose search
\* raises gets no entry
RECURSIVE BatchFrom_NoEntry(_, _, _, _, _, _, _, _)
BatchFrom_NoEntry(v, queries, i, top_k, threshold, ps, raising, results) ==
    IF i > Len(queries) THEN results
    ELSE LET query == queries[i]
             r == SearchOne(v, query, top_k, threshold, ps[query], raising)
         IN  BatchFrom_NoEntry(v, queries, i + 1, top_k, threshold, ps, raising,
                 IF r.ret = "ok" THEN DictSet(results, query, r.res) ELSE results)

\* the loop of batch_search from query i on
RECURSIVE BatchFrom(_, _, _, _, _, _, _, _)
BatchFrom(v, queries, i, top_k, threshold, ps, raising, results) ==
    IF i > Len(queries) THEN results
    ELSE LET query == queries[i]
             r == SearchOne(v, query, top_k, threshold, ps[query], raising)
         IN  BatchFrom(v, queries, i + 1, top_k, threshold, ps, raising,
                 DictSet(results, query, IF r.ret = "ok" THEN r.res ELSE <<>>))

\* VectorSearch.batch_search
BatchSearch(v, queries, top_k, threshold, ps, raising) ==
    BatchFrom(v, queries, 1, top_k, threshold, ps, raising, <<>>)

-----------------------------------------------------------------------------
(* Tools: tools/retrieval.py, tools/match.py, tools/__init__.py.  A        *)
(* dictionary whose order matters is a sequence of entries; the parsed     *)
(* arguments of a call are a function from the keys present to values.     *)

\* the keys of the registry get_tools returns, in insertion order
ToolOrder == <<"Retrieval", "Match">>
ToolNames == {"Retrieval", "Match"}

\* the enum of the categories parameter of Match and the keys of a job
Categories ==
    {"company", "rating", "location", "positionName", "description", "salary", "jobType"}

SPECIAL_LIST == {"positionName", "description"}

\* one declaration of a tool parameter; has_required: the declaration has a
\* "required" key
ParamDef(name, required) ==
    [name |-> name, has_required |-> TRUE, required |-> required]

\* the default `parameters` dictionaries of the two constructors: one
\* object per class, shared by every instance built without the argument
DefaultParameters ==
    [n \in ToolNames |->
        IF n = "Retrieval"
        THEN <<ParamDef("query", TRUE), ParamDef("reference_entries", FALSE)>>
        ELSE <<ParamDef("key word", TRUE), ParamDef("categories", TRUE)>>]

\* get_tools(): fresh instances over the shared declarations d
GetTools(d) == [n \in ToolNames |-> [name |-> n, parameters |-> d[n]]]

\* param_def.get("required", False)
IsRequired(param_def) == param_def.has_required /\ param_def.required

\* MissingParams that stops at the first missing parameter
RECURSIVE MissingParams_FirstOnly(_, _, _)
MissingParams_FirstOnly(tool_parameters, i, parameters) ==
    IF i > Len(tool_parameters) THEN <<>>
    ELSE IF /\ IsRequired(tool_parameters[i])
            /\ tool_parameters[i].name \notin DOMAIN parameters
         THEN <<tool_parameters[i].name>>
         ELSE MissingParams_FirstOnly(tool_parameters, i + 1, parameters)

\* the loop of call that collects missing_params, from declaration i on
RECURSIVE MissingParams(_, _, _)
MissingParams(tool_parameters, i, parameters) ==
    IF i > Len(tool_parameters) THEN <<>>
    ELSE LET param_def == tool_parameters[i]
             rest == MissingParams(tool_parameters, i + 1, parameters)
         IN  IF IsRequired(param_def) /\ param_def.name \notin DOMAIN parameters
             THEN <<param_def.name>> \o rest
             ELSE rest

\* parameters.get(key, default)
DictGet(parameters, key, default) ==
    IF key \in DOMAIN parameters THEN parameters[key] ELSE default

\* what _execute gives: it raises, or returns {"error": ...}, or returns
\* the list of hits (hits: whether the list is that of a search)
ExecRaises == [raised |-> TRUE, error |-> "", hits |-> FALSE]
ExecError(msg) == [raised |-> FALSE, error |-> msg, hits |-> FALSE]
ExecHits == [raised |-> FALSE, error |-> "", hits |-> TRUE]

\* Retrieval._execute; fails: reading the PDF or the index raises
RetrievalExecute(parameters, fails) ==
    IF DictGet(parameters, "query", "") = "" THEN ExecError("Query is required")
    ELSE IF fails THEN ExecRaises
    ELSE ExecHits

\* Match._execute; fails: reading the index raises.  A category that is
\* not a key of the jobs raises KeyError in item[attr].
MatchExecute(parameters, fails) ==
    IF DictGet(parameters, "key word", "") = "" THEN ExecError("key word is required")
    ELSE LET attr == DictGet(parameters, "categories", "None")
         IN  IF attr \in SPECIAL_LIST
             THEN IF fails THEN ExecRaises ELSE ExecHits
             ELSE IF attr \notin Categories THEN ExecRaises
             ELSE ExecHits

\* str.lower of one character and of a text
LowerChar(c) ==
    CASE c = "K" -> "k"
      [] c = "C" -> "c"
      [] c = "D" -> "d"
      [] OTHER -> c

Lower(s) == [i \in 1..Len(s) |-> LowerChar(s[i])]

\* the squared distance an IndexFlatL2 reports
L2Sqr(u, v) == (u[1] - v[1]) * (u[1] - v[1]) + (u[2] - v[2]) * (u[2] - v[2])

\* the distance FAISS gives a missing hit of an L2 search (the largest
\* float); its label is -1
FltMax == 100000

\* the orders in which an L2 search may rank the stored vectors: by
\* ascending distance, equal distances in any order
L2Orders(vecs, qv) ==
    { p \in Permutations(1..Len(vecs)) :
        \A i, j \in 1..Len(vecs) :
            i < j => L2Sqr(vecs[p[i]], qv) <= L2Sqr(vecs[p[j]], qv) }

\* D[0] and I[0] of index.search(model.encode([query]), k) under ranking p
L2Search(vecs, qv, k, p) ==
    [j \in 1..k |->
        IF j <= Len(vecs)
        THEN [d |-> L2Sqr(vecs[p[j]], qv), i |-> p[j] - 1]
        ELSE [d |-> FltMax, i |-> -1]]

\* results.sort(key=relevance, reverse=True): descending, equal keys in
\* their order of insertion
SortByRelevanceReversed(results) ==
    [k \in 1..Len(results) |->
        results[CHOOSE i \in 1..Len(results) :
                    k = 1 + Cardinality({ j \in 1..Len(results) :
                                \/ results[j].relevance > results[i].relevance
                                \/ /\ results[j].relevance = results[i].relevance
                                   /\ j < i })]]

\* results[:max_results] for max_results >= 0
Truncate(results, max_results) ==
    SubSeq(results, 1, IF max_results < Len(results) THEN max_results ELSE Len(results))

\* the list _execute returns from the hits of the search: sorted, cut to
\* max_results, the relevance deleted
RetrievalResults(kb_data, hits, max_results) ==
    LET results == [j \in 1..Len(hits) |->
                       [content |-> PyItem(kb_data, hits[j].i), relevance |-> hits[j].d]]
        kept == Truncate(SortByRelevanceReversed(results), max_results)
    IN  [j \in 1..Len(kept) |-> kept[j].content]

\* Retrieval._execute from the search on, for the lowered query and the
\* max_results it computed
RetrievalSearch(kb_data, query, max_results, p) ==
    [raised |-> FALSE, error |-> "", hits |-> TRUE,
     results |-> RetrievalResults(kb_data,
                     L2Search([j \in 1..Len(kb_data) |-> Encode(kb_data[j])],
                              Encode(query), max_results + 2, p),
                     max_results)]

\* max_results of _execute: the key read is "reference_entry"
MaxResults(parameters) ==
    IF DictGet(parameters, "reference_entry", 3) = 0 THEN 3
    ELSE DictGet(parameters, "reference_entry", 3)

\* Retrieval._execute on the knowledge base kb_data that create_pdfkb
\* reads, with the list it returns; an empty knowledge base raises when
\* the index is built
RetrievalExecuteOn(kb_data, parameters, p) ==
    IF Lower(DictGet(parameters, "query", <<>>)) = <<>>
    THEN [raised |-> FALSE, error |-> "Query is required", hits |-> FALSE, results |-> <<>>]
    ELSE IF kb_data = <<>>
         THEN [raised |-> TRUE, error |-> "", hits |-> FALSE, results |-> <<>>]
         ELSE RetrievalSearch(kb_data, Lower(DictGet(parameters, "query", <<>>)),
                              MaxResults(parameters), p)

Execute(name, parameters, fails) ==
    IF name = "Retrieval" THEN RetrievalExecute(parameters, fails)
    ELSE MatchExecute(parameters, fails)

\* the dictionaries a call returns; keys: the keys the dictionary has
NoResult ==
    [keys |-> {}, status |-> "", error |-> "", message |-> <<>>, result |-> ExecRaises]

MissingParametersResult(missing_params) ==
    [keys |-> {"error", "message", "status"}, status |-> "error",
     error |-> "MissingParameters", message |-> missing_params, result |-> ExecRaises]

SuccessResult(result) ==
    [keys |-> {"result", "status"}, status |-> "success", error |-> "",
     message |-> <<>>, result |-> result]

ToolNotFoundResult(name) ==
    [keys |-> {"error", "message", "status"}, status |-> "error",
     error |-> "ToolNotFound", message |-> <<name>>, result |-> ExecRaises]

\* Retrieval.call and Match.call on a tool instance; executed: _execute
\* was invoked
ToolCall(tool, parameters, fails) ==
    LET missing_params == MissingParams(tool.parameters, 1, parameters)
    IN  IF missing_params # <<>>
        THEN [raised |-> FALSE, executed |-> FALSE,
              result |-> MissingParametersResult(missing_params)]
        ELSE LET result == Execute(tool.name, parameters, fails)
             IN  IF result.raised
                 THEN [raised |-> TRUE, executed |-> TRUE, result |-> NoResult]
                 ELSE [raised |-> FALSE, executed |-> TRUE,
                       result |-> SuccessResult(result)]

\* get_definition: properties is the tool's own parameters object
GetDefinition(tool) ==
    LET flagged == SelectSeq(tool.parameters, IsRequired)
    IN  [name |-> tool.name,
         properties |-> tool.parameters,
         required |-> [i \in 1..Len(flagged) |-> flagged[i].name]]

\* del prop['required'] on every property that has it
WithoutRequired(properties) ==
    [i \in 1..Len(properties) |->
        IF properties[i].has_required
        THEN [properties[i] EXCEPT !.has_required = FALSE, !.required = FALSE]
        ELSE properties[i]]

\* remove_required_from_properties without the copy.deepcopy: the markers
\* are deleted from the definitions passed in
RemoveRequiredFromProperties_NoCopy(tool_definitions) ==
    LET stripped == [i \in 1..Len(tool_definitions) |->
                        [tool_definitions[i] EXCEPT
                            !.properties = WithoutRequired(@)]]
    IN  [new |-> stripped, given |-> stripped]

\* remove_required_from_properties: new is the list returned, given is
\* the list passed in as the call leaves it
RemoveRequiredFromProperties(tool_definitions) ==
    [new |-> [i \in 1..Len(tool_definitions) |->
                 [tool_definitions[i] EXCEPT !.properties = WithoutRequired(@)]],
     given |-> tool_definitions]

\* init_tools over the shared declarations d: the definitions returned and
\* the shared declarations afterwards (the properties of a definition are
\* the declarations themselves)
InitTools(d) ==
    LET tool_list == GetTools(d)
        tool_definitions == [i \in 1..Len(ToolOrder) |-> GetDefinition(tool_list[ToolOrder[i]])]
        r == RemoveRequiredFromProperties(tool_definitions)
    IN  [ret |-> r.new,
         defaults |-> [n \in ToolNames |->
                          LET i == CHOOSE j \in 1..Len(ToolOrder) : ToolOrder[j] = n
                          IN  r.given[i].properties]]

-----------------------------------------------------------------------------
(* Dispatcher: utils/toolscalls_process.py.                                *)

\* an arguments object without keys
EmptyObj == [k \in {} |-> ""]

\* json.loads of the arguments text of a call: the text either parses to
\* its object or raises JSONDecodeError
JsonLoads(text) ==
    IF text.valid THEN [err |-> FALSE, obj |-> text.obj]
    ELSE [err |-> TRUE, obj |-> EmptyObj]

\* json.dumps(result): the JSON text of a dictionary
JsonDumps(result) == <<"json", result>>

\* the content of a message that is plain text
Text(t) == <<"text", t>>

\* ToolMessage without the id of the call
ToolMessage_NoId(call, name, result) ==
    [role |-> "tool", tool_call_id |-> <<>>, name |-> name,
     content |-> JsonDumps(result), tool_calls |-> <<>>]

\* the tool-role entry appended for a call
ToolMessage(call, name, result) ==
    [role |-> "tool", tool_call_id |-> call.id, name |-> name,
     content |-> JsonDumps(result), tool_calls |-> <<>>]

ProcessedCall(name, parameters, result) ==
    [name |-> name, parameters |-> parameters, result |-> result]

\* the loop of process_tool_calls from call i on.  fails: the positions of
\* the calls whose tool execution hits a failing read; executed: the
\* positions of the calls for which _execute was invoked.  An exception
\* leaves the entries appended before it.
RECURSIVE ProcessFrom(_, _, _, _, _, _, _)
ProcessFrom(tool_list, tool_calls, i, conversation_history, processed_calls, executed, fails) ==
    IF i > Len(tool_calls)
    THEN [raised |-> FALSE, history |-> conversation_history,
          processed |-> processed_calls, executed |-> executed]
    ELSE LET call == tool_calls[i]
             name == call.name
             loaded == JsonLoads(call.arguments)
         IN  IF loaded.err
             THEN [raised |-> TRUE, history |-> conversation_history,
                   processed |-> processed_calls, executed |-> executed]
             ELSE IF name \in DOMAIN tool_list
             THEN LET r == ToolCall(tool_list[name], loaded.obj, i \in fails)
                      ran == IF r.executed THEN Append(executed, i) ELSE executed
                  IN  IF r.raised
                      THEN [raised |-> TRUE, history |-> conversation_history,
                            processed |-> processed_calls, executed |-> ran]
                      ELSE ProcessFrom(tool_list, tool_calls, i + 1,
                               Append(conversation_history,
                                      ToolMessage(call, name, r.result)),
                               Append(processed_calls,
                                      ProcessedCall(name, loaded.obj, r.result)),
                               ran, fails)
             ELSE ProcessFrom(tool_list, tool_calls, i + 1,
                      Append(conversation_history,
                             ToolMessage(call, name, ToolNotFoundResult(name))),
                      Append(processed_calls,
                             ProcessedCall(name, loaded.obj, ToolNotFoundResult(name))),
                      executed, fails)

\* variant: the tool messages are collected in a fresh list that replaces
\* the history
ProcessToolCalls_FreshHistory(d, tool_calls, conversation_history, fails) ==
    ProcessFrom(GetTools(d), tool_calls, 1, <<>>, <<>>, <<>>, fails)

\* process_tool_calls(tool_calls, conversation_history) over the shared
\* declarations d
ProcessToolCalls(d, tool_calls, conversation_history, fails) ==
    ProcessFrom(GetTools(d), tool_calls, 1, conversation_history, <<>>, <<>>, fails)

-----------------------------------------------------------------------------
(* State.                                                                  *)

\* a VectorStore after __init__ (self.index is not set before a load);
\* model: the name of the model _load_model_safely returned, loads: the
\* loads this instance has attempted
NewStore ==
    [index |-> NoIndex, index_path |-> "", kb_data |-> <<>>, metadata |-> <<>>,
     model |-> PrimaryModel, loads |-> <<[model |-> PrimaryModel, degraded |-> FALSE]>>]

\* a VectorSearch after __init__
NewSearch ==
    [index |-> NoIndex, index_path |-> "", current_index_name |-> "",
     kb_data |-> <<>>, metadata |-> <<>>]

\* no upsert is between its file writes
WrIdle == [pc |-> "idle", name |-> "", texts |-> <<>>, metadata |-> <<>>, pre |-> NoArtifact]

\* the record of the last call: its name, arguments and outcome.  had: the
\* files of the name that existed before the call; pre: the files of the
\* name before the call; csv, cols: the arguments of an upsert; all: the
\* result of the inner search of a filtered search; queries, raising: the
\* queries of a batch and those of them the embedding provider raises on;
\* text_column: the text column of an upsert; attempts, avail: the model
\* loads a construction made and the loads that could succeed
NoCall ==
    [op |-> "none", name |-> "", ret |-> "", had |-> {}, fail |-> "none",
     pre |-> NoArtifact, csv |-> <<>>, cols |-> <<>>,
     query |-> <<>>, top_k |-> 0, threshold |-> 0, filter |-> {},
     res |-> <<>>, all |-> <<>>, queries |-> <<>>, raising |-> {},
     text_column |-> "", attempts |-> <<>>, avail |-> {}]

Had(files) == { part \in Parts : Exists(files[part]) }

BoolStr(b) == IF b THEN "True" ELSE "False"

\* the transcript main starts with: the system prompt and the user message
StartConversation ==
    <<[role |-> "system", tool_call_id |-> <<>>, name |-> "", content |-> Text("prompt"),
       tool_calls |-> <<>>],
      [role |-> "user", tool_call_id |-> <<>>, name |-> "", content |-> Text("question"),
       tool_calls |-> <<>>]>>

\* a reply of the model: result of generate_messages; tool_calls is <<>>
\* when the result has no "tool_calls" key
NoReply == [content |-> Text(""), tool_calls |-> <<>>]

\* the driver before its loop over models_list
DrvStart == [pc |-> "generate", model |-> 1, result |-> NoReply]

\* the record of the last call on the agent side: its arguments and its
\* outcome.  before: the transcript before the call; inits, dispatches: the
\* number of init_tools and of process_tool_calls calls so far
NoOut ==
    [op |-> "none", tool |-> "", parameters |-> EmptyObj, fails |-> {},
     calls |-> <<>>, ret |-> "", result |-> NoResult, executed |-> <<>>,
     processed |-> <<>>, before |-> <<>>, defs |-> <<>>, inits |-> 0,
     dispatches |-> 0, kb_data |-> <<>>, hits |-> <<>>]

\* a QA_RAG after __init__: no pairs and no index name (None); its
\* vector_store and vector_search are st and vs
NewQa == [qa_pairs |-> <<>>, index_name |-> ""]

AgentInit ==
    /\ defaults = DefaultParameters
    /\ conversations = StartConversation
    /\ drv = DrvStart
    /\ out = NoOut

Init ==
    /\ disk = [n \in Names |-> NoArtifact]
    /\ st = NewStore
    /\ vs = NewSearch
    /\ wr = WrIdle
    /\ last = NoCall
    /\ log = [n \in Names |-> <<>>]
    /\ nups = 0
    /\ ncor = 0
    /\ okload = FALSE
    /\ qa = NewQa
    /\ AgentInit

\* the upserts that built the artifact of a name since it last had no index
\* file, as long as nothing else touched its files (<<>>: not known)
LogAfterUpsert(n, csv, cols) ==
    IF ~Exists(disk[n].idx) THEN <<[csv |-> csv, cols |-> cols]>>
    ELSE IF log[n] # <<>> THEN Append(log[n], [csv |-> csv, cols |-> cols])
    ELSE <<>>

\* vector_store.upsert_csv_to_vector_store(csv, text_column, n, cols)
UpsertCall(n, csv, text_column, cols) ==
    /\ wr.pc = "idle"
    /\ LET r == UpsertCsvToVectorStore(st, disk, n, csv, text_column, cols)
       IN  /\ st' = r.st
           /\ disk' = r.disk
           /\ last' = [NoCall EXCEPT !.op = "upsert", !.name = n, !.ret = r.ret,
                                     !.had = Had(disk[n]), !.pre = disk[n],
                                     !.csv = csv, !.cols = cols,
                                     !.text_column = text_column]
           /\ log' = IF r.ret = "ok"
                     THEN [log EXCEPT ![n] = LogAfterUpsert(n, csv, cols)]
                     ELSE log
    /\ nups' = nups + 1
    /\ UNCHANGED <<vs, wr, ncor>>
    /\ UNCHANGED <<okload, qa, agentVars>>

Upsert(n, csv, text_column, cols) ==
    nups < MaxUpserts /\ UpsertCall(n, csv, text_column, cols)

\* the upsert that builds the index searches run on
Build(n, csv, text_column, cols) ==
    nups < MaxBuilds /\ UpsertCall(n, csv, text_column, cols)

\* vector_store.load_index(n)
StLoad(n) ==
    /\ wr.pc = "idle"
    /\ LET r == St_load_index(st, disk[n], n)
       IN  /\ st' = r.inst
           /\ last' = [NoCall EXCEPT !.op = "st_load", !.name = n, !.ret = BoolStr(r.ret),
                                     !.had = Had(disk[n])]
    /\ UNCHANGED <<disk, vs, wr, log, nups, ncor>>
    /\ UNCHANGED <<okload, qa, agentVars>>

\* vector_search.load_index(n)
VsLoad(n) ==
    /\ LET r == Vs_load_index(vs, disk[n], n)
       IN  /\ vs' = r.inst
           /\ last' = [NoCall EXCEPT !.op = "vs_load", !.name = n, !.ret = BoolStr(r.ret),
                                     !.had = Had(disk[n])]
           /\ okload' = (okload \/ r.ret)
    /\ UNCHANGED <<disk, st, wr, log, nups, ncor>>
    /\ UNCHANGED <<qa, agentVars>>

\* vector_store.delete_index(n); the removal of file `fail` raises
Delete(n, fail) ==
    /\ wr.pc = "idle"
    /\ IF fail = "none" THEN TRUE ELSE Exists(disk[n][fail])
    /\ LET r == DeleteIndex(disk[n], fail)
       IN  /\ disk' = [disk EXCEPT ![n] = r.files]
           /\ last' = [NoCall EXCEPT !.op = "delete", !.name = n, !.ret = BoolStr(r.ret),
                                     !.had = Had(disk[n]), !.fail = fail]
    /\ log' = [log EXCEPT ![n] = <<>>]
    /\ UNCHANGED <<st, vs, wr, nups, ncor>>
    /\ UNCHANGED <<okload, qa, agentVars>>

\* the environment damages one file of the directory: it no longer parses
Corrupt(n, part) ==
    /\ wr.pc = "idle"
    /\ ncor < MaxCorrupt
    /\ Readable(disk[n][part])
    /\ disk' = [disk EXCEPT ![n][part] = [state |-> "corrupt", data |-> Absent(part).data]]
    /\ last' = [NoCall EXCEPT !.op = "corrupt", !.name = n]
    /\ log' = [log EXCEPT ![n] = <<>>]
    /\ ncor' = ncor + 1
    /\ UNCHANGED <<st, vs, wr, nups>>
    /\ UNCHANGED <<okload, qa, agentVars>>

\* variant: the search keeps only the metadata of the results it returned
DoSearch_ClearsMetadata(query, top_k, threshold) ==
    /\ \E p \in HitOrders(vs.index, NormalizeL2(Encode(query))) :
         LET r == Search(vs, query, top_k, threshold, p)
         IN  last' = [NoCall EXCEPT !.op = "search", !.ret = r.ret, !.query = query,
                                    !.top_k = top_k, !.threshold = threshold,
                                    !.res = r.res]
    /\ vs' = [vs EXCEPT !.metadata = <<>>]
    /\ UNCHANGED <<disk, st, wr, log, nups, ncor>>
    /\ UNCHANGED <<okload, qa, agentVars>>

\* vector_search.search(query, top_k, threshold)
DoSearch(query, top_k, threshold) ==
    /\ \E p \in HitOrders(vs.index, NormalizeL2(Encode(query))) :
         LET r == Search(vs, query, top_k, threshold, p)
         IN  last' = [NoCall EXCEPT !.op = "search", !.ret = r.ret, !.query = query,
                                    !.top_k = top_k, !.threshold = threshold,
                                    !.res = r.res]
    /\ UNCHANGED <<disk, st, vs, wr, log, nups, ncor>>
    /\ UNCHANGED <<okload, qa, agentVars>>

\* vector_search.search_with_metadata_filter(query, flt, top_k, threshold)
DoSearchWithMetadataFilter(query, flt, top_k, threshold) ==
    /\ \E p \in HitOrders(vs.index, NormalizeL2(Encode(query))) :
         LET r == SearchWithMetadataFilter(vs, query, flt, top_k, threshold, p)
         IN  last' = [NoCall EXCEPT !.op = "filter", !.ret = r.ret, !.query = query,
                                    !.top_k = top_k, !.threshold = threshold,
                                    !.filter = flt, !.res = r.res, !.all = r.all]
    /\ UNCHANGED <<disk, st, vs, wr, log, nups, ncor>>
    /\ UNCHANGED <<okload, qa, agentVars>>

Next ==
    \/ \E n \in Names, csv \in CsvFiles, tc \in TextColumns, cols \in AdditionalColumns :
         Upsert(n, csv, tc, cols)
    \/ \E n \in Names : StLoad(n)
    \/ \E n \in Names : VsLoad(n)
    \/ \E n \in Names, fail \in Parts \cup {"none"} : Delete(n, fail)
    \/ \E n \in Names, part \in Parts : Corrupt(n, part)

Spec == Init /\ [][Next]_vars

NextSearch ==
    \/ \E n \in Names, csv \in CsvFiles, tc \in TextColumns, cols \in AdditionalColumns :
         Build(n, csv, tc, cols)
    \/ \E n \in Names : VsLoad(n)
    \/ \E n \in Names, part \in Parts : Corrupt(n, part)
    \/ \E q \in Queries, k \in TopKs, t \in Thresholds : DoSearch(q, k, t)
    \/ \E q \in Queries, f \in Filters, k \in TopKs, t \in Thresholds :
         DoSearchWithMetadataFilter(q, f, k, t)

SpecSearch == Init /\ [][NextSearch]_vars

-----------------------------------------------------------------------------
(* An index directory that already holds an artifact stored without a      *)
(* metadata file (<name>_metadata.json is optional in the persisted        *)
(* layout; load_index and search both handle its absence).                 *)

LegacyTexts == << <<"c">> >>

LegacyArtifact ==
    WriteTextsFile(WriteIndexFile(NoArtifact, Embeddings(PrimaryModel, LegacyTexts)), LegacyTexts)

InitLegacy ==
    /\ disk = [n \in Names |-> LegacyArtifact]
    /\ st = NewStore
    /\ vs = NewSearch
    /\ wr = WrIdle
    /\ last = NoCall
    /\ log = [n \in Names |-> <<>>]
    /\ nups = 0
    /\ ncor = 0
    /\ okload = FALSE
    /\ qa = NewQa
    /\ AgentInit

NextLegacy ==
    \/ \E n \in Names, csv \in CsvFiles, tc \in TextColumns, cols \in AdditionalColumns :
         Upsert(n, csv, tc, cols)
    \/ \E n \in Names : StLoad(n)
    \/ \E n \in Names : VsLoad(n)

SpecLegacy == InitLegacy /\ [][NextLegacy]_vars

-----------------------------------------------------------------------------
(* The upsert file write by file write, with another instance loading in   *)
(* between.                                                                *)

\* upsert_csv_to_vector_store up to the first write: the load, the
\* extraction, the filtering and the embedding
UpsertBegin(n, csv, text_column, cols) ==
    /\ wr.pc = "idle"
    /\ nups < MaxUpserts
    /\ LET p == PrepareUpsert(st, disk[n], n, csv, text_column, cols)
           valid == FilterValid(p.texts, p.metadata, 1)
       IN  /\ st' = p.st
           /\ IF p.err \/ valid.texts = <<>>
              THEN /\ wr' = wr
                   /\ last' = [NoCall EXCEPT !.op = "upsert", !.name = n,
                                             !.ret = "ValueError",
                                             !.had = Had(disk[n]), !.pre = disk[n],
                                             !.csv = csv, !.cols = cols,
                                             !.text_column = text_column]
              ELSE /\ wr' = [pc |-> "write_index", name |-> n, texts |-> valid.texts,
                             metadata |-> valid.metadata, pre |-> disk[n]]
                   /\ last' = [NoCall EXCEPT !.op = "upsert_begin", !.name = n,
                                             !.had = Had(disk[n]), !.pre = disk[n],
                                             !.csv = csv, !.cols = cols,
                                             !.text_column = text_column]
    /\ nups' = nups + 1
    /\ UNCHANGED <<disk, vs, log, ncor>>
    /\ UNCHANGED <<okload, qa, agentVars>>

\* faiss.write_index(index, index_path)
WriteIndexStep ==
    /\ wr.pc = "write_index"
    /\ disk' = [disk EXCEPT ![wr.name] = WriteIndexFile(@, Embeddings(st.model, wr.texts))]
    /\ wr' = [wr EXCEPT !.pc = "write_metadata"]
    /\ UNCHANGED <<st, vs, last, log, nups, ncor>>
    /\ UNCHANGED <<okload, qa, agentVars>>

\* the json.dump of the metadata
WriteMetadataStep ==
    /\ wr.pc = "write_metadata"
    /\ disk' = [disk EXCEPT ![wr.name] = WriteMetadataFile(@, wr.metadata)]
    /\ wr' = [wr EXCEPT !.pc = "write_texts"]
    /\ UNCHANGED <<st, vs, last, log, nups, ncor>>
    /\ UNCHANGED <<okload, qa, agentVars>>

\* the json.dump of the texts
WriteTextsStep ==
    /\ wr.pc = "write_texts"
    /\ disk' = [disk EXCEPT ![wr.name] = WriteTextsFile(@, wr.texts)]
    /\ wr' = [wr EXCEPT !.pc = "reload"]
    /\ UNCHANGED <<st, vs, last, log, nups, ncor>>
    /\ UNCHANGED <<okload, qa, agentVars>>

\* the closing self.load_index(index_name) and the return
UpsertEnd ==
    /\ wr.pc = "reload"
    /\ st' = St_load_index(st, disk[wr.name], wr.name).inst
    /\ last' = [NoCall EXCEPT !.op = "upsert", !.name = wr.name, !.ret = "ok",
                              !.had = Had(wr.pre), !.pre = wr.pre]
    /\ wr' = WrIdle
    /\ log' = [log EXCEPT ![wr.name] = <<>>]
    /\ UNCHANGED <<disk, vs, nups, ncor>>
    /\ UNCHANGED <<okload, qa, agentVars>>

NextConc ==
    \/ \E n \in Names, csv \in CsvFiles, tc \in TextColumns, cols \in AdditionalColumns :
         UpsertBegin(n, csv, tc, cols)
    \/ WriteIndexStep
    \/ WriteMetadataStep
    \/ WriteTextsStep
    \/ UpsertEnd
    \/ \E n \in Names : VsLoad(n)

SpecConc == Init /\ [][NextConc]_vars

-----------------------------------------------------------------------------
(* Searches on an artifact stored without a metadata file, and batches.    *)

NextLegacySearch ==
    \/ \E n \in Names, csv \in CsvFiles, tc \in TextColumns, cols \in AdditionalColumns :
         Build(n, csv, tc, cols)
    \/ \E n \in Names : VsLoad(n)
    \/ \E q \in Queries, k \in TopKs, t \in Thresholds : DoSearch(q, k, t)
    \/ \E q \in Queries, f \in Filters, k \in TopKs, t \in Thresholds :
         DoSearchWithMetadataFilter(q, f, k, t)

SpecLegacySearch == InitLegacy /\ [][NextLegacySearch]_vars

\* vector_search.batch_search(queries, top_k, threshold)
DoBatchSearch(queries, top_k, threshold, raising) ==
    /\ \E ps \in Rankings(vs.index, queries) :
         last' = [NoCall EXCEPT !.op = "batch", !.ret = "ok", !.queries = queries,
                                !.raising = raising,
                                !.top_k = top_k, !.threshold = threshold,
                                !.res = BatchSearch(vs, queries, top_k, threshold,
                                                    ps, raising)]
    /\ UNCHANGED <<disk, st, vs, wr, log, nups, ncor>>
    /\ UNCHANGED <<okload, qa, agentVars>>

NextBatch ==
    \/ \E n \in Names, csv \in CsvFiles, tc \in TextColumns, cols \in AdditionalColumns :
         Build(n, csv, tc, cols)
    \/ \E n \in Names : VsLoad(n)
    \/ \E qs \in BatchLists, k \in TopKs, t \in BatchThresholds, raising \in BatchRaising :
         DoBatchSearch(qs, k, t, raising)

SpecBatch == Init /\ [][NextBatch]_vars

\* the three searches of one VectorSearch on an index built once
NextQueries ==
    \/ \E n \in Names, csv \in CsvFiles, tc \in TextColumns, cols \in AdditionalColumns :
         Build(n, csv, tc, cols)
    \/ \E n \in Names : VsLoad(n)
    \/ \E q \in Queries, k \in TopKs, t \in Thresholds : DoSearch(q, k, t)
    \/ \E q \in Queries, f \in Filters, k \in TopKs, t \in Thresholds :
         DoSearchWithMetadataFilter(q, f, k, t)
    \/ \E qs \in BatchLists, k \in TopKs, t \in BatchThresholds, raising \in BatchRaising :
         DoBatchSearch(qs, k, t, raising)

SpecQueries == Init /\ [][NextQueries]_vars

-----------------------------------------------------------------------------
(* The agent side: tool calls, the registry and the dispatcher.            *)

\* the arguments objects of the calls
ArgObjects ==
    { EmptyObj,
      "query" :> "q",
      "query" :> "",
      "key word" :> "go",
      ("key word" :> "go") @@ ("categories" :> "company"),
      ("key word" :> "go") @@ ("categories" :> "description"),
      ("key word" :> "go") @@ ("categories" :> "color") }

\* the arguments texts of the calls: the JSON text of each object, and a
\* text that is not JSON
Arguments ==
    { [valid |-> TRUE, obj |-> o] : o \in ArgObjects }
       \cup { [valid |-> FALSE, obj |-> EmptyObj] }

\* the tool names of the calls: those of the registry and one that is not
CallNames == ToolNames \cup {"Nope"}

\* the call at position i of a reply
Call(i, name, arguments) ==
    [id |-> <<"call", i>>, name |-> name, arguments |-> arguments]

\* the tool_calls lists of a reply
ToolCallLists ==
    UNION { { [i \in 1..n |-> Call(i, f[i][1], f[i][2])] :
                f \in [1..n -> CallNames \X Arguments] } : n \in 1..MaxCalls }

\* tool.call(parameters) on a tool of get_tools()
DoToolCall(name, parameters, fails) ==
    /\ LET r == ToolCall(GetTools(defaults)[name], parameters, fails)
       IN  out' = [NoOut EXCEPT !.op = "call", !.tool = name, !.parameters = parameters,
                                !.fails = IF fails THEN {1} ELSE {},
                                !.ret = IF r.raised THEN "raise" ELSE "ok",
                                !.result = r.result,
                                !.executed = IF r.executed THEN <<1>> ELSE <<>>,
                                !.inits = out.inits, !.dispatches = out.dispatches]
    /\ UNCHANGED <<defaults, conversations, drv>>
    /\ UNCHANGED <<disk, st, vs, wr, last, log, nups, ncor, okload, qa>>

\* tools.init_tools()
DoInitTools ==
    /\ out.inits < MaxInits
    /\ LET r == InitTools(defaults)
       IN  /\ defaults' = r.defaults
           /\ out' = [NoOut EXCEPT !.op = "init_tools", !.ret = "ok", !.defs = r.ret,
                                   !.inits = out.inits + 1,
                                   !.dispatches = out.dispatches]
    /\ UNCHANGED <<conversations, drv>>
    /\ UNCHANGED <<disk, st, vs, wr, last, log, nups, ncor, okload, qa>>

\* utils.process_tool_calls(tool_calls, conversations)
DoProcessToolCalls(tool_calls, fails) ==
    /\ out.dispatches < MaxDispatches
    /\ LET r == ProcessToolCalls(defaults, tool_calls, conversations, fails)
       IN  /\ conversations' = r.history
           /\ out' = [NoOut EXCEPT !.op = "process", !.calls = tool_calls,
                                   !.fails = fails,
                                   !.ret = IF r.raised THEN "raise" ELSE "ok",
                                   !.processed = r.processed,
                                   !.executed = r.executed,
                                   !.before = conversations,
                                   !.inits = out.inits,
                                   !.dispatches = out.dispatches + 1]
    /\ UNCHANGED <<defaults, drv>>
    /\ UNCHANGED <<disk, st, vs, wr, last, log, nups, ncor, okload, qa>>

NextTools ==
    \/ \E name \in ToolNames, parameters \in ArgObjects, fails \in BOOLEAN :
         DoToolCall(name, parameters, fails)
    \/ DoInitTools
    \/ \E tool_calls \in ToolCallLists :
         \E fails \in SUBSET (1..Len(tool_calls)) : DoProcessToolCalls(tool_calls, fails)

SpecTools == Init /\ [][NextTools]_vars

\* the knowledge bases the PDF gives and the parameters of the calls of
\* the Retrieval tool
KbTexts == { <<"c">>, <<"d">>, <<"n">> }
KnowledgeBases == UNION { [1..n -> KbTexts] : n \in 0..MaxKb }
RetrievalArgs ==
    { "query" :> <<"k">>, "query" :> <<"K">>, "query" :> <<>> }
      \cup { ("query" :> <<"k">>) @@ ("reference_entries" :> n) : n \in 0..2 }
      \cup { ("query" :> <<"k">>) @@ ("reference_entry" :> n) : n \in 0..1 }

\* the state after tool._execute(parameters) gave r
RetrievalExecuteDone(r, kb_data, parameters) ==
    out' = [NoOut EXCEPT !.op = "execute", !.tool = "Retrieval",
                         !.parameters = parameters, !.kb_data = kb_data,
                         !.ret = IF r.raised THEN "raise"
                                 ELSE IF r.error # "" THEN "error" ELSE "ok",
                         !.hits = r.results,
                         !.inits = out.inits, !.dispatches = out.dispatches]

\* Retrieval._execute(parameters) with the PDF holding kb_data; the tool
\* keeps nothing from one query to the next, so a behaviour has one query
DoRetrievalExecute(kb_data, parameters) ==
    /\ out.op = "none"
    /\ \E p \in L2Orders([j \in 1..Len(kb_data) |-> Encode(kb_data[j])],
                         Encode(Lower(DictGet(parameters, "query", <<>>)))) :
          RetrievalExecuteDone(RetrievalExecuteOn(kb_data, parameters, p),
                               kb_data, parameters)
    /\ UNCHANGED <<defaults, conversations, drv>>
    /\ UNCHANGED <<disk, st, vs, wr, last, log, nups, ncor, okload, qa>>

NextRetrieval ==
    \E kb_data \in KnowledgeBases, parameters \in RetrievalArgs :
        DoRetrievalExecute(kb_data, parameters)

SpecRetrieval == Init /\ [][NextRetrieval]_vars

-----------------------------------------------------------------------------
(* The conversation driver: main.py.                                       *)

\* the replies of a model: an answer, with or without tool calls
DriverCalls ==
    { <<Call(1, "Match", [valid |-> TRUE,
                          obj |-> ("key word" :> "go") @@ ("categories" :> "company")])>>,
      <<Call(1, "Nope", [valid |-> TRUE, obj |-> EmptyObj]),
        Call(2, "Retrieval", [valid |-> TRUE, obj |-> "query" :> "q"])>>,
      <<Call(1, "Match", [valid |-> TRUE,
                          obj |-> ("key word" :> "go") @@ ("categories" :> "description")])>>,
      <<Call(1, "Retrieval", [valid |-> TRUE, obj |-> EmptyObj])>>,
      <<Call(1, "Retrieval", [valid |-> FALSE, obj |-> EmptyObj])>> }

Replies ==
    { [content |-> Text("answer"), tool_calls |-> tc] : tc \in {<<>>} \cup DriverCalls }

\* the assistant entry appended for a reply
AssistantMessage(result) ==
    [role |-> "assistant", tool_call_id |-> <<>>, name |-> "",
     content |-> result.content, tool_calls |-> result.tool_calls]

\* the for loop moves to the next model, or ends after the last
NextModel(d) ==
    IF d.model < MaxModels THEN [d EXCEPT !.pc = "generate", !.model = d.model + 1]
    ELSE [d EXCEPT !.pc = "done"]

\* model.generate_messages(conversations, tools=tool_definitions) and the
\* append of the reply
Generate(result) ==
    /\ drv.pc = "generate"
    /\ conversations' = Append(conversations, AssistantMessage(result))
    /\ drv' = IF result.tool_calls # <<>>
              THEN [drv EXCEPT !.pc = "dispatch", !.result = result]
              ELSE [NextModel(drv) EXCEPT !.result = result]
    /\ UNCHANGED <<defaults, out>>
    /\ UNCHANGED <<disk, st, vs, wr, last, log, nups, ncor, okload, qa>>

\* utils.process_tool_calls(result["tool_calls"], conversations); an
\* exception ends main
DispatchStep(fails) ==
    /\ drv.pc = "dispatch"
    /\ LET r == ProcessToolCalls(defaults, drv.result.tool_calls, conversations, fails)
       IN  /\ conversations' = r.history
           /\ drv' = [drv EXCEPT !.pc = IF r.raised THEN "crashed" ELSE "regenerate"]
    /\ UNCHANGED <<defaults, out>>
    /\ UNCHANGED <<disk, st, vs, wr, last, log, nups, ncor, okload, qa>>

\* Regenerate that dispatches again when the follow-up reply has tool
\* calls
Regenerate_DispatchesAgain(result) ==
    /\ drv.pc = "regenerate"
    /\ drv' = IF result.tool_calls # <<>>
              THEN [drv EXCEPT !.pc = "dispatch", !.result = result]
              ELSE [NextModel(drv) EXCEPT !.result = result]
    /\ UNCHANGED <<defaults, conversations, out>>
    /\ UNCHANGED <<disk, st, vs, wr, last, log, nups, ncor, okload, qa>>

\* model.generate_messages(messages=conversations): the reply is printed
\* as the final response
Regenerate(result) ==
    /\ drv.pc = "regenerate"
    /\ drv' = [NextModel(drv) EXCEPT !.result = result]
    /\ UNCHANGED <<defaults, conversations, out>>
    /\ UNCHANGED <<disk, st, vs, wr, last, log, nups, ncor, okload, qa>>

NextDriver ==
    \/ \E result \in Replies : Generate(result)
    \/ \E fails \in SUBSET (1..MaxCalls) : DispatchStep(fails)
    \/ \E result \in Replies : Regenerate(result)

SpecDriver == Init /\ [][NextDriver]_vars

\* the driver when every call of a model and of a tool returns: a step
\* that can be taken is taken
SpecDriverFair == SpecDriver /\ WF_vars(NextDriver)

-----------------------------------------------------------------------------
(* Stores constructed while some models cannot be loaded.                 *)

\* the loads of a construction that may succeed or raise
Loads == { LoadOf(m, FALSE) : m \in ModelNames } \cup {LoadOf(PrimaryModel, TRUE)}

\* VectorStore(): __init__ keeps the model _load_model_safely returns; when
\* it raises RuntimeError no instance replaces the one in use
Construct(avail) ==
    /\ wr.pc = "idle"
    /\ LET r == LoadModelSafely(PrimaryModel, avail)
       IN  /\ st' = IF r.ret = "ok"
                    THEN [NewStore EXCEPT !.model = r.model, !.loads = r.attempts]
                    ELSE st
           /\ last' = [NoCall EXCEPT !.op = "construct", !.ret = r.ret,
                                     !.attempts = r.attempts, !.avail = avail]
    /\ UNCHANGED <<disk, vs, wr, log, nups, ncor>>
    /\ UNCHANGED <<okload, qa, agentVars>>

\* the CSV files upserted by these stores: of one row at most
ShortCsvFiles == { csv \in CsvFiles : Len(csv) <= 1 }

NextModels ==
    \/ \E avail \in SUBSET Loads : Construct(avail)
    \/ \E n \in Names, csv \in ShortCsvFiles, tc \in TextColumns, cols \in AdditionalColumns :
         Upsert(n, csv, tc, cols)
    \/ \E n \in Names : StLoad(n)

SpecModels == Init /\ [][NextModels]_vars

-----------------------------------------------------------------------------
(* QA_RAG: question, answer, score datasets on one store and one search.   *)

MaxQaRows == 2

\* the rows of a QA file or list: a plain question, a second one, and a
\* question of whitespace only
QaRowValues ==
    { [question |-> <<"c">>, answer |-> <<"a">>, score |-> <<"1">>],
      [question |-> <<"d">>, answer |-> <<"b">>, score |-> <<"2">>],
      [question |-> <<" ">>, answer |-> <<"a">>, score |-> <<"2">>] }

\* QA files and lists: at least one row
QaFiles == UNION { [1..n -> QaRowValues] : n \in 1..MaxQaRows }

\* question_column arguments: a column of the file and one that is not
QuestionColumns == {"question", "title"}

\* list(zip(questions, answers, scores)) of the astype(str) columns
ZipColumns(csv, question_column, answer_column, score_column) ==
    [i \in 1..Len(csv) |->
        <<Cell(csv[i], question_column), Cell(csv[i], answer_column),
          Cell(csv[i], score_column)>>]

\* the tuples of a qa_list as given
Tuples(qa_list) ==
    [i \in 1..Len(qa_list) |-> <<qa_list[i].question, qa_list[i].answer, qa_list[i].score>>]

\* the QA_RAG with the pairs and the name set, and the outcome u of the
\* upsert that follows
QaAfterUpsert(q1, u) == [qa |-> q1, st |-> u.st, disk |-> u.disk, ret |-> u.ret]

\* add_qa_dataset: a missing column raises before anything is assigned
AddQaDataset(q, s, d, csv, question_column, answer_column, score_column, index_name) ==
    IF ~({question_column, answer_column, score_column} \subseteq ColumnsOf(csv))
    THEN [qa |-> q, st |-> s, disk |-> d, ret |-> "ValueError"]
    ELSE QaAfterUpsert(
           [qa_pairs |-> ZipColumns(csv, question_column, answer_column, score_column),
            index_name |-> index_name],
           UpsertCsvToVectorStore(s, d, index_name, csv, question_column,
                                  <<answer_column, score_column>>))

\* add_qa_list: the list goes through a temporary CSV file
AddQaList(q, s, d, qa_list, index_name) ==
    QaAfterUpsert([qa_pairs |-> Tuples(qa_list), index_name |-> index_name],
                  UpsertCsvToVectorStore(s, d, index_name, qa_list, "question",
                                         <<"answer", "score">>))

\* metadata.get(key, '')
MetaGet(metadata, key) ==
    IF \E e \in metadata : e[1] = key
    THEN (CHOOSE e \in metadata : e[1] = key)[2]
    ELSE <<>>

\* the pairs load_qa_index rebuilds from a loaded VectorSearch: one per
\* text that has a metadata entry
PairsOf(v) ==
    [i \in 1..(IF Len(v.kb_data) < Len(v.metadata) THEN Len(v.kb_data) ELSE Len(v.metadata)) |->
        <<v.kb_data[i], MetaGet(v.metadata[i], "answer"), MetaGet(v.metadata[i], "score")>>]

\* load_qa_index after self.vector_search.load_index gave l
QaAfterLoad(q, l, index_name) ==
    IF l.ret
    THEN [qa |-> [qa_pairs |-> PairsOf(l.inst), index_name |-> index_name],
          vs |-> l.inst, ret |-> TRUE]
    ELSE [qa |-> q, vs |-> l.inst, ret |-> FALSE]

\* load_qa_index
LoadQaIndex(q, v, files, index_name) ==
    QaAfterLoad(q, Vs_load_index(v, files, index_name), index_name)

\* add_qa_pair after the reload gave l
QaPairAdded(u, l) ==
    [qa |-> l.qa, st |-> u.st, vs |-> l.vs, disk |-> u.disk, ret |-> "True"]

\* add_qa_pair after the upsert of the one-row file gave u: an exception
\* is caught and answered False
QaPairAfterUpsert(q, v, u, index_name) ==
    IF u.ret # "ok"
    THEN [qa |-> q, st |-> u.st, vs |-> v, disk |-> u.disk, ret |-> "False"]
    ELSE QaPairAdded(u, LoadQaIndex(q, v, u.disk[index_name], index_name))

\* add_qa_pair
AddQaPair(q, s, v, d, question, answer, score) ==
    IF q.index_name = ""
    THEN [qa |-> q, st |-> s, vs |-> v, disk |-> d, ret |-> "ValueError"]
    ELSE QaPairAfterUpsert(
           q, v,
           UpsertCsvToVectorStore(s, d, q.index_name,
                                  <<[question |-> question, answer |-> answer,
                                     score |-> score]>>,
                                  "question", <<"answer", "score">>),
           q.index_name)

\* the qa_result of one search result
QaResultOf(result) ==
    [question |-> result.content,
     answer |-> MetaGet(result.metadata, "answer"),
     score |-> MetaGet(result.metadata, "score"),
     similarity |-> result.similarity,
     index |-> result.index]

\* search_qa after the search gave r: result['metadata'] raises KeyError
\* for a result without metadata
QaAfterSearch(r) ==
    IF r.ret # "ok" THEN [ret |-> r.ret, res |-> <<>>]
    ELSE IF \E i \in 1..Len(r.res) : ~r.res[i].has_metadata
    THEN [ret |-> "KeyError", res |-> <<>>]
    ELSE [ret |-> "ok", res |-> [i \in 1..Len(r.res) |-> QaResultOf(r.res[i])]]

\* search_qa on the VectorSearch v1 its load_index left, loaded tells
\* whether that load returned True
SearchQa(v1, loaded, query, top_k, threshold, p) ==
    IF ~loaded THEN [ret |-> "ValueError", res |-> <<>>]
    ELSE QaAfterSearch(Search(v1, query, top_k, threshold, p))

\* get_qa_by_index; None is the empty tuple
GetQaByIndex(q, index) ==
    IF 0 <= index /\ index < Len(q.qa_pairs) THEN q.qa_pairs[index + 1] ELSE <<>>

\* the state after a call that gave r
QaCallDone(r, op, n) ==
    /\ qa' = r.qa
    /\ st' = r.st
    /\ disk' = r.disk
    /\ last' = [NoCall EXCEPT !.op = op, !.name = n, !.ret = r.ret,
                              !.had = Had(disk[n]), !.pre = disk[n]]

DoAddQaDataset(csv, question_column, n) ==
    /\ nups < MaxUpserts
    /\ QaCallDone(AddQaDataset(qa, st, disk, csv, question_column, "answer", "score", n),
                  "add_qa_dataset", n)
    /\ nups' = nups + 1
    /\ UNCHANGED <<vs, wr, log, ncor, okload, agentVars>>

DoAddQaList(qa_list, n) ==
    /\ nups < MaxUpserts
    /\ QaCallDone(AddQaList(qa, st, disk, qa_list, n), "add_qa_list", n)
    /\ nups' = nups + 1
    /\ UNCHANGED <<vs, wr, log, ncor, okload, agentVars>>

\* the state after a load_qa_index that gave r
QaLoadDone(r, n) ==
    /\ qa' = r.qa
    /\ vs' = r.vs
    /\ last' = [NoCall EXCEPT !.op = "load_qa_index", !.name = n,
                              !.ret = BoolStr(r.ret), !.had = Had(disk[n])]

DoLoadQaIndex(n) ==
    /\ QaLoadDone(LoadQaIndex(qa, vs, disk[n], n), n)
    /\ UNCHANGED <<disk, st, wr, log, nups, ncor, okload, agentVars>>

\* the state after an add_qa_pair that gave r
QaPairDone(r, row) ==
    /\ qa' = r.qa
    /\ st' = r.st
    /\ vs' = r.vs
    /\ disk' = r.disk
    /\ last' = [NoCall EXCEPT !.op = "add_qa_pair", !.name = qa.index_name,
                              !.ret = r.ret, !.csv = <<row>>,
                              !.pre = IF qa.index_name = "" THEN NoArtifact
                                      ELSE disk[qa.index_name]]

DoAddQaPair(row) ==
    /\ nups < MaxUpserts
    /\ QaPairDone(AddQaPair(qa, st, vs, disk, row.question, row.answer, row.score), row)
    /\ nups' = nups + 1
    /\ UNCHANGED <<wr, log, ncor, okload, agentVars>>

\* the state after a search_qa: l is what its load_index gave
QaSearchDone(l, query, top_k, threshold) ==
    /\ vs' = l.inst
    /\ \E p \in HitOrders(l.inst.index, NormalizeL2(Encode(query))) :
         last' = [NoCall EXCEPT !.op = "search_qa", !.query = query, !.top_k = top_k,
                                !.threshold = threshold,
                                !.ret = SearchQa(l.inst, l.ret, query, top_k, threshold, p).ret,
                                !.res = SearchQa(l.inst, l.ret, query, top_k, threshold, p).res]

\* search_qa; load_index(None) finds no file
DoSearchQa(query, top_k, threshold) ==
    /\ QaSearchDone(IF qa.index_name = "" THEN [inst |-> vs, ret |-> FALSE]
                    ELSE Vs_load_index(vs, disk[qa.index_name], qa.index_name),
                    query, top_k, threshold)
    /\ UNCHANGED <<disk, st, qa, wr, log, nups, ncor, okload, agentVars>>

NextQa ==
    \/ \E csv \in QaFiles, qc \in QuestionColumns, n \in Names : DoAddQaDataset(csv, qc, n)
    \/ \E qa_list \in QaFiles, n \in Names : DoAddQaList(qa_list, n)
    \/ \E n \in Names : DoLoadQaIndex(n)
    \/ \E row \in QaRowValues : DoAddQaPair(row)
    \/ \E q \in Queries, k \in TopKs, t \in Thresholds : DoSearchQa(q, k, t)

SpecQa == Init /\ [][NextQa]_vars

-----------------------------------------------------------------------------
(* csv_utils: process_csv_for_rag and batch_process_csv_files.            *)

MaxConfigs == 2

\* the index names of the ingest: those a configuration gives, the base
\* name of the CSV file, and the names upsert derives from the base name
\* and the text column
IngestNames == {"kb", "faq", "kb_text", "kb_body"}

\* f"{base_name}_{text_column}"
DerivedName(base_name, text_column) ==
    CASE base_name = "kb" /\ text_column = "text" -> "kb_text"
      [] base_name = "kb" /\ text_column = "body" -> "kb_body"

\* the CSV files of the configurations: one with a text and one whose
\* only text is blank
IngestCsvFiles ==
    { <<[text |-> <<"c">>, tag |-> "x"]>>, <<[text |-> <<" ">>, tag |-> "x"]>> }

\* csv_path: the base name of the file and what pd.read_csv reads from it
Paths == { [base_name |-> "kb", csv |-> c] : c \in IngestCsvFiles }

\* a key of a configuration: not given, or given with one of the values
KeyChoices(k, values) == {EmptyObj} \cup { k :> v : v \in values }

\* the configuration dictionaries
Configs ==
    { p @@ t @@ n @@ a :
        p \in KeyChoices("path", Paths),
        t \in KeyChoices("text_column", TextColumns),
        n \in KeyChoices("index_name", {"kb", "faq"}),
        a \in KeyChoices("additional_columns", { <<"tag", "owner">> }) }

\* the lists of at most k configurations
ConfigLists(k) == UNION { [1..n -> Configs] : n \in 0..k }

\* the model loads during an ingest: all succeed, or all raise
IngestAvail == {Loads, {}}

\* config.get(key): None is the empty text for index_name and the empty
\* list for additional_columns
ConfigGet(config, key, none) == IF key \in DOMAIN config THEN config[key] ELSE none

\* final_index_name: index_name or the base name of csv_path
FinalIndexName(csv_path, index_name) ==
    IF index_name # "" THEN index_name ELSE csv_path.base_name

\* process_csv_for_rag after the upsert u: the new VectorSearch loads the
\* final index name; raised is the exception that leaves the function, ""
\* when it returns the VectorSearch vs
ProcessAfterUpsert(u, loaded) ==
    IF u.ret # "ok" THEN [raised |-> u.ret, disk |-> u.disk, vs |-> NewSearch]
    ELSE IF loaded.ret THEN [raised |-> "", disk |-> u.disk, vs |-> loaded.inst]
    ELSE [raised |-> "RuntimeError", disk |-> u.disk, vs |-> NewSearch]

\* process_csv_for_rag after the upsert u, final: the final index name
ProcessLoadFinal(u, final) ==
    ProcessAfterUpsert(u, Vs_load_index(NewSearch, u.disk[final], final))

\* process_csv_for_rag with the outcome m of the model load of
\* VectorStore(model_name); upsert derives the index name when none is given
ProcessWithModel(m, d, csv_path, text_column, index_name, additional_columns) ==
    IF m.ret # "ok" THEN [raised |-> m.ret, disk |-> d, vs |-> NewSearch]
    ELSE ProcessLoadFinal(
           UpsertCsvToVectorStore([NewStore EXCEPT !.model = m.model, !.loads = m.attempts],
                                  d,
                                  IF index_name = ""
                                  THEN DerivedName(csv_path.base_name, text_column)
                                  ELSE index_name,
                                  csv_path.csv, text_column, additional_columns),
           FinalIndexName(csv_path, index_name))

\* process_csv_for_rag
ProcessCsvForRag(d, csv_path, text_column, index_name, additional_columns, avail) ==
    ProcessWithModel(LoadModelSafely(PrimaryModel, avail), d, csv_path, text_column,
                     index_name, additional_columns)

\* rag_systems[name] = vector_search on a dictionary kept as a sequence of
\* entries in insertion order
RagSet(rag_systems, name, vector_search) ==
    IF \E i \in 1..Len(rag_systems) : rag_systems[i].name = name
    THEN [i \in 1..Len(rag_systems) |->
             IF rag_systems[i].name = name THEN [name |-> name, vs |-> vector_search]
             ELSE rag_systems[i]]
    ELSE Append(rag_systems, [name |-> name, vs |-> vector_search])

RECURSIVE BatchProcessFrom(_, _, _, _, _, _)

\* the try block of configuration i after process_csv_for_rag gave r: the
\* entry is set when it returned, and the loop goes on either way
BatchProcessAfter(r, csv_files, i, final, rag_systems, outcomes, avail) ==
    IF r.raised = ""
    THEN BatchProcessFrom(csv_files, i + 1, r.disk, RagSet(rag_systems, final, r.vs),
                          Append(outcomes, ""), avail)
    ELSE BatchProcessFrom(csv_files, i + 1, r.disk, rag_systems,
                          Append(outcomes, r.raised), avail)

\* one configuration of the loop: config['path'] and config['text_column']
\* raise KeyError outside the try block
BatchProcessOne(config, csv_files, i, d, rag_systems, outcomes, avail) ==
    IF "path" \notin DOMAIN config \/ "text_column" \notin DOMAIN config
    THEN [ret |-> "KeyError", disk |-> d, rag_systems |-> <<>>, outcomes |-> outcomes]
    ELSE BatchProcessAfter(
           ProcessCsvForRag(d, config["path"], config["text_column"],
                            ConfigGet(config, "index_name", ""),
                            ConfigGet(config, "additional_columns", <<>>), avail),
           csv_files, i,
           FinalIndexName(config["path"], ConfigGet(config, "index_name", "")),
           rag_systems, outcomes, avail)

\* the for loop of batch_process_csv_files from configuration i on;
\* outcomes: per configuration handled so far, "" or the exception caught
BatchProcessFrom(csv_files, i, d, rag_systems, outcomes, avail) ==
    IF i > Len(csv_files)
    THEN [ret |-> "ok", disk |-> d, rag_systems |-> rag_systems, outcomes |-> outcomes]
    ELSE BatchProcessOne(csv_files[i], csv_files, i, d, rag_systems, outcomes, avail)

\* batch_process_csv_files(csv_files)
BatchProcessCsvFiles(d, csv_files, avail) ==
    BatchProcessFrom(csv_files, 1, d, <<>>, <<>>, avail)

InitIngest ==
    /\ disk = [n \in IngestNames |-> NoArtifact]
    /\ st = NewStore
    /\ vs = NewSearch
    /\ wr = WrIdle
    /\ last = NoCall
    /\ log = [n \in IngestNames |-> <<>>]
    /\ nups = 0
    /\ ncor = 0
    /\ okload = FALSE
    /\ qa = NewQa
    /\ AgentInit

\* the state after a call of batch_process_csv_files that gave r
AfterBatchProcess(r, csv_files, avail) ==
    /\ disk' = r.disk
    /\ last' = [NoCall EXCEPT !.op = "batch_process", !.ret = r.ret,
                              !.res = r.rag_systems, !.all = r.outcomes,
                              !.queries = csv_files, !.avail = avail]

\* a call of batch_process_csv_files; nups counts the configurations given
DoBatchProcessCsvFiles(csv_files, avail) ==
    /\ nups + Len(csv_files) <= MaxUpserts
    /\ AfterBatchProcess(BatchProcessCsvFiles(disk, csv_files, avail), csv_files, avail)
    /\ nups' = nups + Len(csv_files)
    /\ UNCHANGED <<st, vs, wr, log, ncor>>
    /\ UNCHANGED <<okload, qa, agentVars>>

\* the lists are drawn up to the number of configurations still allowed
NextIngest ==
    \E avail \in IngestAvail :
        \E csv_files \in ConfigLists(IF MaxUpserts - nups < MaxConfigs
                                      THEN MaxUpserts - nups ELSE MaxConfigs) :
            DoBatchProcessCsvFiles(csv_files, avail)

SpecIngest == InitIngest /\ [][NextIngest]_vars

\* the name under which upsert_csv_to_vector_store writes the artifact
WrittenName(csv_path, text_column, index_name) ==
    IF index_name = "" THEN DerivedName(csv_path.base_name, text_column) ELSE index_name

\* the state after a call of process_csv_for_rag that gave r: vs is the
\* VectorSearch the caller holds, replaced when the call returns one
RagCallDone(r, csv_path, text_column, index_name, cols, avail) ==
    /\ disk' = r.disk
    /\ vs' = IF r.raised = "" THEN r.vs ELSE vs
    /\ last' = [NoCall EXCEPT !.op = "process_csv_for_rag",
                              !.ret = IF r.raised = "" THEN "ok" ELSE r.raised,
                              !.name = index_name, !.queries = <<csv_path>>,
                              !.csv = csv_path.csv, !.text_column = text_column,
                              !.cols = cols, !.avail = avail, !.pre = disk[index_name]]

\* process_csv_for_rag(csv_path, text_column, index_name, cols); index_name
\* "" is the omitted argument
DoProcessCsvForRag(csv_path, text_column, index_name, cols, avail) ==
    /\ nups < MaxUpserts
    /\ RagCallDone(ProcessCsvForRag(disk, csv_path, text_column, index_name, cols, avail),
                   csv_path, text_column, index_name, cols, avail)
    /\ nups' = nups + 1
    /\ UNCHANGED <<st, wr, log, ncor, okload, qa, agentVars>>

\* the index directory of these calls: one more entry stands for the name
\* of no file
InitRag ==
    /\ disk = [n \in IngestNames \cup {""} |-> NoArtifact]
    /\ st = NewStore
    /\ vs = NewSearch
    /\ wr = WrIdle
    /\ last = NoCall
    /\ log = [n \in IngestNames |-> <<>>]
    /\ nups = 0
    /\ ncor = 0
    /\ okload = FALSE
    /\ qa = NewQa
    /\ AgentInit

NextRag ==
    \E csv_path \in Paths, tc \in TextColumns, n \in {"", "kb", "faq"},
       cols \in AdditionalColumns, avail \in IngestAvail :
        DoProcessCsvForRag(csv_path, tc, n, cols, avail)

SpecRag == InitRag /\ [][NextRag]_vars

-----------------------------------------------------------------------------
(* Properties.                                                             *)

\* what an instance holds after a load: vectors, texts and metadata
Loaded(inst) ==
    [vecs |-> inst.index.vecs, texts |-> inst.kb_data, metadata |-> inst.metadata]

\* what the three files of a name hold
Stored(files) ==
    [vecs |-> files.idx.data.vecs, texts |-> files.txt.data, metadata |-> files.meta.data]

EqualLengths(a) ==
    Len(a.vecs) = Len(a.texts) /\ Len(a.texts) = Len(a.metadata)

\* the text cell of a row is empty or whitespace only
BlankRow(row) == ~IsValidText(row.text)

\* the metadata of a row under additional_columns
RowMetadata(row, cols) == IF cols # <<>> THEN MetaOf(row, cols) ELSE {}

\* C1: after every completed upsert, and after every load_index that returns
\* True, the number of vectors, the number of texts and the number of
\* metadata entries are equal, on disk and in the instance that loaded.
C1_PartsHaveEqualLength ==
    /\ (last.op = "upsert" /\ last.ret = "ok") =>
          /\ \A part \in Parts : Readable(disk[last.name][part])
          /\ EqualLengths(Stored(disk[last.name]))
          /\ EqualLengths(Loaded(st))
    /\ (last.op = "st_load" /\ last.ret = "True") => EqualLengths(Loaded(st))
    /\ (last.op = "vs_load" /\ last.ret = "True") => EqualLengths(Loaded(vs))

\* C1 witness: an upsert that appended to an existing artifact and dropped a
\* blank row has completed.
C1_Witness ==
    /\ last.op = "upsert" /\ last.ret = "ok"
    /\ "idx" \in last.had
    /\ \E i \in 1..Len(last.csv) : BlankRow(last.csv[i])
    /\ Len(disk[last.name].txt.data) >= 2
    /\ Len(disk[last.name].txt.data) < Len(last.pre.txt.data) + Len(last.csv)

\* the records the rows of a CSV file contribute, in row order: the text as
\* read and stripped, with the metadata of the same row
RECURSIVE RowRecords(_, _)
RowRecords(csv, cols) ==
    IF csv = <<>> THEN <<>>
    ELSE LET row == Head(csv)
             rest == RowRecords(Tail(csv), cols)
         IN  IF IsValidText(TextOf(row))
             THEN <<[text |-> Strip(TextOf(row)), metadata |-> RowMetadata(row, cols)]>>
                  \o rest
             ELSE rest

\* the metadata stored at position i before an upsert: the empty mapping
\* when the artifact had no metadata there
PreMetadata(pre, i) ==
    IF Readable(pre.meta) /\ i <= Len(pre.meta.data) THEN pre.meta.data[i] ELSE {}

\* C2: after any upsert every position holds the text and the metadata of
\* one and the same record: the records kept from before keep their own
\* metadata (the empty mapping when they had none), and each appended text
\* carries the metadata of its own row.
C2_MetadataFollowsText ==
    (last.op = "upsert" /\ last.ret = "ok") =>
        LET post == Stored(disk[last.name])
            new == RowRecords(last.csv, last.cols)
            kept == Len(post.texts) - Len(new)
        IN  /\ kept >= 0
            /\ Len(post.metadata) = Len(post.texts)
            /\ \A i \in 1..Len(post.texts) :
                 IF i > kept
                 THEN /\ post.texts[i] = new[i - kept].text
                      /\ post.metadata[i] = new[i - kept].metadata
                 ELSE /\ post.texts[i] = last.pre.txt.data[i]
                      /\ post.metadata[i] = PreMetadata(last.pre, i)

NoBlankRows(csv) == \A i \in 1..Len(csv) : ~BlankRow(csv[i])

\* the rows of a CSV file as records, texts stripped
TrimmedRecords(csv, cols) ==
    [i \in 1..Len(csv) |->
        [text |-> Strip(csv[i].text), metadata |-> RowMetadata(csv[i], cols)]]

\* the records an instance holds
Records(inst) ==
    [i \in 1..Len(inst.kb_data) |->
        [text |-> inst.kb_data[i], metadata |-> inst.metadata[i]]]

\* C3: when an artifact was built from nothing by two upserts, of records A
\* and then of records B (rows with a non-blank text), a load yields exactly
\* len(A) + len(B) aligned records: those of A in input order, then those of
\* B in input order.
C3_UpsertMonotonic ==
    \A n \in Names :
        (/\ Len(log[n]) = 2
         /\ NoBlankRows(log[n][1].csv)
         /\ NoBlankRows(log[n][2].csv)) =>
            LET A == log[n][1]
                B == log[n][2]
                Yields(inst) ==
                    /\ EqualLengths(Loaded(inst))
                    /\ Len(inst.kb_data) = Len(A.csv) + Len(B.csv)
                    /\ Records(inst) = TrimmedRecords(A.csv, A.cols)
                                       \o TrimmedRecords(B.csv, B.cols)
            IN  /\ (last.op = "upsert" /\ last.ret = "ok" /\ last.name = n) => Yields(st)
                /\ (last.op = "st_load" /\ last.ret = "True" /\ last.name = n) => Yields(st)
                /\ (last.op = "vs_load" /\ last.ret = "True" /\ last.name = n) => Yields(vs)

\* C3 witness: another instance has loaded an artifact built by two upserts
\* of non-blank rows, the first with metadata columns and the second without.
C3_Witness ==
    /\ last.op = "vs_load" /\ last.ret = "True"
    /\ Len(log[last.name]) = 2
    /\ NoBlankRows(log[last.name][1].csv) /\ Len(log[last.name][1].csv) = 2
    /\ NoBlankRows(log[last.name][2].csv) /\ Len(log[last.name][2].csv) >= 1
    /\ log[last.name][1].cols # <<>> /\ log[last.name][2].cols = <<>>
    /\ Len(vs.kb_data) >= 3

\* the rows whose text cell is neither empty nor whitespace only, as given
RECURSIVE NonBlankRows(_)
NonBlankRows(csv) ==
    IF csv = <<>> THEN <<>>
    ELSE IF BlankRow(Head(csv)) THEN NonBlankRows(Tail(csv))
    ELSE <<Head(csv)>> \o NonBlankRows(Tail(csv))

\* C4: building an index from N records and loading it yields the texts and
\* the metadata of the input with the blank entries removed, in order and
\* unchanged: no blank entry has a position.
C4_RoundTrip ==
    (last.op = "upsert" /\ last.ret = "ok" /\ "idx" \notin last.had) =>
        LET rows == NonBlankRows(last.csv)
        IN  /\ st.kb_data = [i \in 1..Len(rows) |-> rows[i].text]
            /\ st.metadata = [i \in 1..Len(rows) |-> RowMetadata(rows[i], last.cols)]

\* C5: a load_index by another instance between the file writes of an
\* upsert observes the whole artifact of before the upsert or the whole
\* artifact of after it.
C5_LoadSeesWholeArtifact ==
    (/\ last.op = "vs_load" /\ last.ret = "True"
     /\ wr.pc # "idle" /\ last.name = wr.name) =>
        \/ Loaded(vs) = Stored(wr.pre)
        \/ Loaded(vs) = [vecs |-> Embeddings(st.model, wr.texts), texts |-> wr.texts,
                         metadata |-> wr.metadata]

C7_CorruptLoadKeepsState ==
    [][ (/\ last'.op \in {"st_load", "vs_load"}
         /\ Exists(disk[last'.name].idx)
         /\ \E part \in Parts : disk[last'.name][part].state = "corrupt") =>
            (/\ last'.ret \notin {"True", "False"}
             /\ Loaded(st') = Loaded(st)
             /\ Loaded(vs') = Loaded(vs)) ]_vars

\* C8: delete_index returns False exactly when a removal fails; when none
\* fails it returns True and no file of the name is left, whichever of the
\* three existed; it never creates a file; on a name without files it
\* returns True and changes nothing.
C8_DeleteIdempotent ==
    last.op = "delete" =>
        /\ last.ret = "False" <=> last.fail # "none"
        /\ last.fail = "none" => Had(disk[last.name]) = {}
        /\ Had(disk[last.name]) \subseteq last.had
        /\ last.had = {} => (last.ret = "True" /\ disk[last.name] = NoArtifact)

\* C8 witness: a delete of a name of which only some files existed has
\* returned True.
C8_Witness ==
    /\ last.op = "delete" /\ last.ret = "True"
    /\ last.had # {} /\ last.had # Parts
    /\ Had(disk[last.name]) = {}

\* C9: search returns at most top_k results, each with a similarity of at
\* least the threshold, an index that is a position of the loaded texts and
\* the text of that position as content.
C9_SearchResultsInBounds ==
    (last.op = "search" /\ last.ret = "ok") =>
        /\ Len(last.res) <= last.top_k
        /\ \A i \in 1..Len(last.res) :
             /\ last.res[i].similarity >= last.threshold
             /\ 0 <= last.res[i].index /\ last.res[i].index < Len(vs.kb_data)
             /\ last.res[i].content = vs.kb_data[last.res[i].index + 1]

\* the results of the inner search that match the filter, in its order
RECURSIVE Matching(_, _)
Matching(all, flt) ==
    IF all = <<>> THEN <<>>
    ELSE IF Head(all).has_metadata /\ flt \subseteq Head(all).metadata
         THEN <<Head(all)>> \o Matching(Tail(all), flt)
         ELSE Matching(Tail(all), flt)

\* C10: search_with_metadata_filter returns only records whose metadata has
\* every key of the filter with an equal value, at most top_k of them: the
\* first top_k matching records in the order of the underlying search.
C10_FilterKeepsFirstMatches ==
    (last.op = "filter" /\ last.ret = "ok") =>
        /\ \A i \in 1..Len(last.res) :
             last.res[i].has_metadata /\ last.filter \subseteq last.res[i].metadata
        /\ Len(last.res) <= last.top_k
        /\ LET m == Matching(last.all, last.filter)
           IN  last.res = SubSeq(m, 1, IF Len(m) < last.top_k THEN Len(m) ELSE last.top_k)

\* C11: with the empty filter, search_with_metadata_filter returns the
\* result list of search with the same query, top_k and threshold (raising
\* where it raises), on every loaded index, one stored without a metadata
\* file included.
C11_EmptyFilterIsSearch ==
    (last.op = "filter" /\ last.filter = {}) =>
        \E p \in HitOrders(vs.index, NormalizeL2(Encode(last.query))) :
            LET s == Search(vs, last.query, last.top_k, last.threshold, p)
            IN  s.ret = last.ret /\ s.res = last.res

\* the score of the stored vector at position i (from 1) for a query
ScoreOf(inst, query, i) == InnerProduct(inst.index.vecs[i], NormalizeL2(Encode(query)))

\* the ranking by descending similarity, ties by ascending position
RankOf(inst, query) ==
    CHOOSE p \in Permutations(1..Len(inst.index.vecs)) :
        \A i, j \in 1..Len(inst.index.vecs) :
            i < j => \/ ScoreOf(inst, query, p[i]) > ScoreOf(inst, query, p[j])
                     \/ /\ ScoreOf(inst, query, p[i]) = ScoreOf(inst, query, p[j])
                        /\ p[i] < p[j]

\* C12: the results of a search are the top_k stored records of highest
\* similarity that reach the threshold, in descending similarity, ties in
\* ascending position.
C12_RankedByPosition ==
    (last.op = "search" /\ last.ret = "ok") =>
        LET rank == RankOf(vs, last.query)
            n == IF last.top_k < Len(rank) THEN last.top_k ELSE Len(rank)
            IsHit(i) == ScoreOf(vs, last.query, i) >= last.threshold
            top == SelectSeq(SubSeq(rank, 1, n), IsHit)
        IN  /\ Len(last.res) = Len(top)
            /\ \A i \in 1..Len(top) :
                 /\ last.res[i].index = top[i] - 1
                 /\ last.res[i].similarity = ScoreOf(vs, last.query, top[i])

\* C13: as long as no load_index of the instance has returned True, search
\* and search_with_metadata_filter raise ValueError and return nothing.
C13_SearchNeedsLoadedIndex ==
    (last.op \in {"search", "filter"} /\ ~okload) =>
        (last.ret = "ValueError" /\ last.res = <<>>)

\* C14: batch_search does not raise; its mapping has one key per distinct
\* query; a query whose search raises is mapped to the empty list, every
\* other query to what search returns for it alone.
C14_BatchIsolatesFailures ==
    last.op = "batch" =>
        /\ last.ret = "ok"
        /\ { last.res[i].query : i \in 1..Len(last.res) }
              = { last.queries[i] : i \in 1..Len(last.queries) }
        /\ \A i, j \in 1..Len(last.res) : last.res[i].query = last.res[j].query => i = j
        /\ \A i \in 1..Len(last.res) :
             LET q == last.res[i].query
             IN  \E p \in HitOrders(vs.index, NormalizeL2(Encode(q))) :
                   LET alone == SearchOne(vs, q, last.top_k, last.threshold, p,
                                          last.raising)
                   IN  last.res[i].results = IF alone.ret = "ok" THEN alone.res ELSE <<>>

\* C14 witness: a batch of two distinct queries on a loaded index, the
\* provider raising on one of them: that one has the empty list, the other
\* has results.
C14_Witness ==
    /\ last.op = "batch" /\ Len(last.res) = 2
    /\ \E i, j \in 1..2 :
         /\ last.res[i].query \in last.raising /\ last.res[i].results = <<>>
         /\ last.res[j].query \notin last.raising /\ last.res[j].results # <<>>

\* the required parameters of a tool that a call's arguments lack, in
\* declaration order
AbsentRequired(name, parameters) ==
    SelectSeq([i \in 1..Len(DefaultParameters[name]) |-> DefaultParameters[name][i].name],
              LAMBDA k : /\ k \notin DOMAIN parameters
                         /\ \E i \in 1..Len(DefaultParameters[name]) :
                              /\ DefaultParameters[name][i].name = k
                              /\ DefaultParameters[name][i].required)

\* C15: a call of Retrieval or Match that omits a required parameter returns
\* the MissingParameters error whose message names exactly the required
\* parameters that are absent, and _execute is not invoked.
C15_MissingParameters ==
    (out.op = "call" /\ AbsentRequired(out.tool, out.parameters) # <<>>) =>
        /\ out.ret = "ok"
        /\ out.result.error = "MissingParameters" /\ out.result.status = "error"
        /\ out.result.message = AbsentRequired(out.tool, out.parameters)
        /\ out.executed = <<>>

\* C15 witness: Match was called with "key word" only and answered that
\* "categories" is missing.
C15_Witness ==
    /\ out.op = "call" /\ out.tool = "Match"
    /\ DOMAIN out.parameters = {"key word"}
    /\ out.result.error = "MissingParameters"
    /\ out.result.message = <<"categories">>

\* the entries a process_tool_calls call appended to the transcript
Added == SubSeq(conversations, Len(out.before) + 1, Len(conversations))

\* the dictionary a tool-role entry carries as JSON
ContentOf(message) == message.content[2]

\* C16: dispatching tool calls of which one names a tool that is not in the
\* registry does not raise, invokes no tool for that call and appends for
\* it exactly one tool-role entry with the id of the call and a content
\* that is the JSON of a dictionary with error ToolNotFound and status
\* error.
C16_UnknownToolIsReported ==
    (out.op = "process" /\ \E i \in 1..Len(out.calls) : out.calls[i].name \notin ToolNames) =>
        /\ out.ret = "ok"
        /\ \A i \in 1..Len(out.calls) :
             out.calls[i].name \notin ToolNames =>
                /\ \A j \in 1..Len(out.executed) : out.executed[j] # i
                /\ Cardinality({ j \in 1..Len(Added) :
                                   /\ Added[j].role = "tool"
                                   /\ Added[j].tool_call_id = out.calls[i].id
                                   /\ ContentOf(Added[j]).error = "ToolNotFound"
                                   /\ ContentOf(Added[j]).status = "error" }) = 1

C18_DispatchNeverRaises ==
    out.op = "process" =>
        /\ out.ret = "ok"
        /\ Len(Added) = Len(out.calls)
        /\ \A i \in 1..Len(Added) :
             /\ Added[i].role = "tool"
             /\ "status" \in ContentOf(Added[i]).keys
             /\ ContentOf(Added[i]).status \in {"success", "error"}

\* the names of the parameters a tool class declares as required
DeclaredRequired(name) ==
    LET flagged == SelectSeq(DefaultParameters[name], LAMBDA d : d.has_required /\ d.required)
    IN  [i \in 1..Len(flagged) |-> flagged[i].name]

\* C19: the definitions init_tools returns have no property with a
\* `required` marker and a `required` list of the parameters declared
\* required; the declarations of the tools stay as they are, so after any
\* number of init_tools calls a tool of get_tools answers a call without a
\* required parameter with MissingParameters.
C19_StrippingKeepsEnforcement ==
    /\ out.op = "init_tools" =>
          /\ Len(out.defs) = Len(ToolOrder)
          /\ \A i \in 1..Len(out.defs) :
               /\ out.defs[i].name = ToolOrder[i]
               /\ \A j \in 1..Len(out.defs[i].properties) :
                    ~out.defs[i].properties[j].has_required
               /\ out.defs[i].required = DeclaredRequired(out.defs[i].name)
    /\ defaults = DefaultParameters
    /\ (out.op = "call" /\ out.inits >= 1 /\ DeclaredRequired(out.tool) # <<>>
        /\ \E i \in 1..Len(DeclaredRequired(out.tool)) :
             DeclaredRequired(out.tool)[i] \notin DOMAIN out.parameters) =>
          (out.result.error = "MissingParameters" /\ out.executed = <<>>)

\* C19 witness: after two init_tools calls Retrieval was called without
\* query and answered MissingParameters.
C19_Witness ==
    /\ out.op = "call" /\ out.inits = 2 /\ out.tool = "Retrieval"
    /\ "query" \notin DOMAIN out.parameters
    /\ out.result.error = "MissingParameters"

\* C20: every reply of a model that has tool calls is followed by their
\* dispatch, and the driver ends only on a reply without tool calls.
C20_RequeryUntilNoToolCalls ==
    [][ drv.pc \in {"generate", "regenerate"} =>
            /\ drv'.result.tool_calls # <<>> => drv'.pc = "dispatch"
            /\ drv'.pc = "done" => drv'.result.tool_calls = <<>> ]_vars

\* C21: every query of a model, the first and the one that follows the
\* dispatch of its tool calls, appends to the transcript an assistant
\* message with the content and the tool calls of the reply, so that at the
\* end the last assistant message is the final reply.
C21_EveryReplyIsAppended ==
    [][ drv.pc \in {"generate", "regenerate"} =>
            conversations' = Append(conversations, AssistantMessage(drv'.result)) ]_vars

\* C22: every step of the driver and of the dispatcher keeps the transcript
\* as a prefix of the next transcript, and the first two entries stay the
\* system prompt and the first user message.
C22_TranscriptAppendOnly ==
    [][ /\ Len(conversations') >= Len(conversations)
        /\ SubSeq(conversations', 1, Len(conversations)) = conversations
        /\ SubSeq(conversations', 1, Len(StartConversation)) = StartConversation ]_vars

\* C22 witness: the session ended with the replies of both models and the
\* tool messages of a dispatch in the transcript, behind the two first
\* entries.
C22_Witness ==
    /\ drv.pc = "done" /\ drv.model = MaxModels
    /\ SubSeq(conversations, 1, Len(StartConversation)) = StartConversation
    /\ \E i, j, k \in 1..Len(conversations) :
         /\ i < j /\ j < k
         /\ conversations[i].role = "assistant" /\ conversations[i].tool_calls # <<>>
         /\ conversations[j].role = "tool"
         /\ conversations[k].role = "assistant"

\* C23: an upsert called with a text column that is not a column of the
\* CSV returns to its caller (with an error value) and raises no exception.
C23_UnknownColumnIsReported ==
    (last.op = "upsert" /\ last.text_column \notin Columns) => last.ret # "ValueError"

\* C24: the vectors of an index file all have one length, and after an
\* upsert that length is the output dimension of the model of the store
\* that made the upsert, whatever model wrote the artifact before.
C24_OneDimensionPerArtifact ==
    \A n \in Names :
        Readable(disk[n].idx) =>
            LET vecs == disk[n].idx.data.vecs
            IN  /\ \A i, j \in 1..Len(vecs) : Len(vecs[i]) = Len(vecs[j])
                /\ (last.op = "upsert" /\ last.ret = "ok" /\ last.name = n) =>
                      \A i \in 1..Len(vecs) : Len(vecs[i]) = Dimension(st.model)

\* C24 witness: a store with a fallback model of another width upserted
\* into an artifact whose vectors had the width of the model that wrote it.
C24_Witness ==
    /\ last.op = "upsert" /\ last.ret = "ok" /\ "idx" \in last.had
    /\ last.pre.idx.data.vecs # <<>>
    /\ Len(last.pre.idx.data.vecs[1]) # Dimension(st.model)
    /\ Len(disk[last.name].idx.data.vecs) > Len(last.pre.idx.data.vecs)

\* the loads of a construction l that left the store s: the primary model,
\* then the fallbacks in their order, then the load with custom settings;
\* each but the last raised, and the last either succeeded and gave the
\* model of the store, or was the load with custom settings and the
\* construction raised RuntimeError
LoadsInOrder(l, s) ==
    LET n == Len(l.attempts)
        f == Len(FallbackModels)
    IN  /\ n \in 1..(f + 2)
        /\ l.attempts[1] = LoadOf(PrimaryModel, FALSE)
        /\ \A i \in 2..n : i <= f + 1 => l.attempts[i] = LoadOf(FallbackModels[i - 1], FALSE)
        /\ n = f + 2 => l.attempts[n] = LoadOf(PrimaryModel, TRUE)
        /\ \A i \in 1..(n - 1) : l.attempts[i] \notin l.avail
        /\ IF l.attempts[n] \in l.avail
           THEN l.ret = "ok" /\ s.model = l.attempts[n].model /\ s.loads = l.attempts
           ELSE n = f + 2 /\ l.ret = "RuntimeError"

\* C25: a construction loads the primary model first, then the fallbacks
\* in their listed order, and keeps the first that loads; the load with
\* custom settings comes after all of them failed and RuntimeError after
\* it failed too; no other operation of the store loads a model.
C25_LoadOrderAtConstruction ==
    [][ /\ last'.op = "construct" => LoadsInOrder(last', st')
        /\ last'.op # "construct" => (st'.loads = st.loads /\ st'.model = st.model) ]_vars

\* C25 witness: the primary model and the first fallback failed, the
\* second fallback loaded and is the model of the store.
C25_Witness ==
    /\ last.op = "construct" /\ last.ret = "ok"
    /\ Len(last.attempts) = 3
    /\ st.model = FallbackModels[2]
    /\ LoadOf(PrimaryModel, TRUE) \in last.avail

\* C26: an index whose metadata file is missing loads with True and an
\* empty metadata list, and a search on it with a positive top_k returns
\* its results, none of them with a metadata field, and does not raise.
C26_MissingMetadataIsNoError ==
    /\ (last.op = "vs_load" /\ last.had = {"idx", "txt"}
        /\ Readable(disk[last.name].idx) /\ Readable(disk[last.name].txt)) =>
          (last.ret = "True" /\ vs.metadata = <<>> /\ vs.kb_data = disk[last.name].txt.data)
    /\ (last.op = "search" /\ last.top_k >= 1 /\ vs.index.loaded
        /\ vs.current_index_name \in Names
        /\ ~Exists(disk[vs.current_index_name].meta)) =>
          /\ last.ret = "ok"
          /\ \A i \in 1..Len(last.res) : ~last.res[i].has_metadata

\* C27: a search, a filtered search and a batch search leave the loaded
\* index, the texts, the metadata and the index name of the VectorSearch
\* and the files of every name as they were.
C27_SearchChangesNothing ==
    [][ last'.op \in {"search", "filter", "batch"} => (vs' = vs /\ disk' = disk) ]_vars

\* C27 witness: a search on a loaded index with metadata returned results.
C27_Witness ==
    /\ last.op = "search" /\ last.ret = "ok" /\ last.res # <<>>
    /\ vs.index.loaded /\ vs.metadata # <<>>
    /\ Loaded(vs) = Stored(disk[vs.current_index_name])

\* the configurations of a batch whose processing returned, by position
Processed(l) == { i \in 1..Len(l.all) : l.all[i] = "" }

\* C28: batch_process_csv_files does not raise; the mapping it returns has
\* an entry under the index name of every configuration whose processing
\* succeeded, and no entry that comes from a configuration that failed.
C28_IngestIsolatesFailures ==
    last.op = "batch_process" =>
        /\ last.ret = "ok"
        /\ Len(last.all) = Len(last.queries)
        /\ { last.res[i].name : i \in 1..Len(last.res) } =
             { FinalIndexName(last.queries[i]["path"],
                              ConfigGet(last.queries[i], "index_name", "")) :
                 i \in Processed(last) }

\* C29: an upsert into a name whose index file exists keeps the texts the
\* texts file held before as a prefix of the texts stored afterwards, also
\* when the load at the start of the upsert does not succeed.
C29_UpsertKeepsStoredRecords ==
    (last.op = "upsert" /\ "idx" \in last.had) =>
        LET before == last.pre.txt.data
            after == disk[last.name].txt.data
        IN  /\ Len(after) >= Len(before)
            /\ SubSeq(after, 1, Len(before)) = before

\* C30: after delete_index returned True no file of the name exists; a
\* load_index of the name that follows returns False, and an upsert into
\* the name that follows stores the records of its CSV file and nothing
\* else, whatever the store still holds in memory.
C30_DeleteThenUpsertStartsAfresh ==
    [][ /\ (last'.op = "delete" /\ last'.ret = "True") => Had(disk'[last'.name]) = {}
        /\ (last.op = "delete" /\ last.ret = "True" /\ last'.name = last.name) =>
              /\ last'.op \in {"st_load", "vs_load"} => last'.ret = "False"
              /\ (last'.op = "upsert" /\ last'.ret = "ok") =>
                    LET new == RowRecords(last'.csv, last'.cols)
                    IN  /\ disk'[last.name].txt.data = [i \in 1..Len(new) |-> new[i].text]
                        /\ disk'[last.name].meta.data =
                              [i \in 1..Len(new) |-> new[i].metadata]
                        /\ Len(disk'[last.name].idx.data.vecs) = Len(new) ]_vars

\* C30 witness: a VectorSearch still holds the records it loaded from the
\* name; all files of the name were removed since, and the second upsert
\* has created the artifact again with other records.
C30_Witness ==
    /\ last.op = "upsert" /\ last.ret = "ok" /\ last.had = {} /\ nups = 2
    /\ vs.index.loaded /\ vs.current_index_name = last.name
    /\ vs.kb_data # <<>>
    /\ vs.kb_data # disk[last.name].txt.data

\* C31: an upsert that raises, for an unknown text column or because no
\* valid text remains, creates, changes and removes no file of any name.
C31_FailedUpsertLeavesFiles ==
    [][ (last'.op = "upsert" /\ last'.ret = "ValueError") => disk' = disk ]_vars

\* C31 witness: an upsert with an unknown text column raised on a name
\* whose three files existed, and they are as they were.
C31_Witness ==
    /\ last.op = "upsert" /\ last.ret = "ValueError"
    /\ last.text_column \notin Columns
    /\ last.had = Parts
    /\ disk[last.name] = last.pre
    /\ disk[last.name].txt.data # <<>>

\* C31 second witness: an upsert of a known text column raised because no
\* valid text remained.
C31_WitnessNoValidText ==
    /\ last.op = "upsert" /\ last.ret = "ValueError"
    /\ last.text_column \in Columns

\* the pairs of the QA_RAG mirror what search_qa would load: position for
\* position the question, the answer and the score of the stored record
QaMirrorsIndex ==
    LET l == Vs_load_index(vs, disk[qa.index_name], qa.index_name)
    IN  l.ret =>
          \A i \in 1..Len(l.inst.kb_data) :
              GetQaByIndex(qa, i - 1) = PairsOf(l.inst)[i]

\* C32: after add_qa_dataset, add_qa_list, add_qa_pair or load_qa_index
\* completed, get_qa_by_index of every position of the index is the
\* question, answer and score search_qa gives for that position; an
\* add_qa_pair of a non-blank question adds exactly one record, placed last.
C32_QaPairsMirrorIndex ==
    /\ (last.op \in {"add_qa_dataset", "add_qa_list", "add_qa_pair", "load_qa_index"}
        /\ last.ret \in {"ok", "True"}) => QaMirrorsIndex
    /\ (last.op = "add_qa_pair" /\ last.ret = "True"
        /\ IsValidText(last.csv[1].question)) =>
          disk[last.name].txt.data =
              Append(last.pre.txt.data, Strip(last.csv[1].question))

\* C33: every call of process_csv_for_rag whose upsert succeeds returns a
\* VectorSearch that has loaded, under the name the store wrote, exactly
\* the artifact the call built, also when index_name is omitted; the call
\* raises RuntimeError only when no model could be loaded.
C33_SearchLoadsWhatStoreWrote ==
    last.op = "process_csv_for_rag" =>
        LET written == WrittenName(last.queries[1], last.text_column, last.name)
        IN  /\ last.ret = "ok" =>
                  /\ vs.current_index_name = written
                  /\ Loaded(vs) = Stored(disk[written])
            /\ last.ret = "RuntimeError" => last.avail = {}

\* C36: a dictionary that call returns with status "success" wraps the
\* outcome of a query that _execute actually ran: when _execute reports an
\* error, the returned dictionary has status "error" and a top-level error
\* field.
C36_SuccessOnlyWhenExecuted ==
    (out.op = "call" /\ out.ret = "ok" /\ out.executed # <<>>
        /\ out.result.result.error # "") =>
            /\ out.result.status = "error"
            /\ "error" \in out.result.keys

\* the distance of a text of the knowledge base from the query of the
\* last call
DistanceOf(content) == L2Sqr(Encode(content), Encode(Lower(out.parameters["query"])))

\* C34: with the L2 index, a successful Retrieval query returns an entry
\* nearest to the query, and no returned entry is farther from the query
\* than an entry of the knowledge base that was left out.
C34_NearestAreReturned ==
    (out.op = "execute" /\ out.ret = "ok") =>
        /\ \E j \in 1..Len(out.hits) :
              \A i \in 1..Len(out.kb_data) :
                  DistanceOf(out.hits[j]) <= DistanceOf(out.kb_data[i])
        /\ \A j \in 1..Len(out.hits) :
              \A i \in 1..Len(out.kb_data) :
                  (\A h \in 1..Len(out.hits) : out.hits[h] # out.kb_data[i]) =>
                      DistanceOf(out.hits[j]) <= DistanceOf(out.kb_data[i])

\* C35: a successful Retrieval query with reference_entries = n > 0
\* returns at most n results, and exactly n when the knowledge base holds
\* at least n entries; without the parameter or with 0 it returns at most
\* the default 3.
C35_ReferenceEntriesIsHonoured ==
    (out.op = "execute" /\ out.ret = "ok") =>
        LET n == DictGet(out.parameters, "reference_entries", 0)
        IN  IF n > 0
            THEN /\ Len(out.hits) <= n
                 /\ Len(out.kb_data) >= n => Len(out.hits) = n
            ELSE Len(out.hits) <= 3

\* the steps main has left at most: three per model not yet driven, fewer
\* within the current model
StepsLeft(d) ==
    IF d.pc \in {"done", "crashed"} THEN 0
    ELSE 3 * (MaxModels - d.model)
           + (CASE d.pc = "generate" -> 3 [] d.pc = "dispatch" -> 2 [] OTHER -> 1)

\* C37: every step of main moves forward through the finite list of models
\* and, within one model, from the first query to the dispatch to the
\* follow-up query, so that a model is queried at most twice and its tool
\* calls are dispatched at most once; main ends, whatever the replies are.
C37_DriverTerminates ==
    /\ [][StepsLeft(drv') < StepsLeft(drv)]_vars
    /\ <>(drv.pc \in {"done", "crashed"})

\* C37 witness: main ended after the follow-up reply of the last model,
\* which again contained tool calls.
C37_Witness ==
    /\ drv.pc = "done" /\ drv.model = MaxModels
    /\ drv.result.tool_calls # <<>>
    /\ conversations[Len(conversations)].role = "tool"

\* C38: the first query sent to each model carries only the system prompt
\* and the first user message, and nothing produced while another model
\* was driven.
C38_SessionsAreIndependent ==
    drv.pc = "generate" => conversations = StartConversation

====
